---- MODULE Spec2Model ----
(***************************************************************************)
(* Verification model of the portfolio engine of krypto-analyse-bot:       *)
(*   - PortfolioSimulator (modules/simulation/portfolio_simulator.py)      *)
(*   - SimpleBacktester   (modules/simulation/backtester.py)               *)
(* and of the two registered strategies:                                   *)
(*   - ConservativeTrendStrategy (strategies/conservative)                 *)
(*   - ModerateMomentumStrategy  (strategies/moderate)                     *)
(* of their base class and registry:                                       *)
(*   - BaseStrategy     (modules/strategies/base_strategy.py)              *)
(*   - StrategyRegistry (modules/strategies/registry.py)                   *)
(* and of SimpleBacktester.run_parameter_sweep.                            *)
(*                                                                         *)
(* Money and quantities are exact integers. One money unit is 1/16 dollar, *)
(* so the default balance of 10000.0 is 160000 units; prices are whole     *)
(* numbers and position sizes whole percents, chosen so that every product *)
(* and quotient the code computes is exact within the tick bound.          *)
(* An unset level (None) and a level of 0.0 are both falsy in the code     *)
(* ("if position.stop_loss and ..."), so one value, NoLevel, stands for    *)
(* both.                                                                   *)
(***************************************************************************)
EXTENDS Integers, Naturals, Sequences, FiniteSets, TLC

(***************************************************************************)
(* Bounds of the model.                                                    *)
(***************************************************************************)
MaxTicks == 2

max_positions == 3

MaxPoints == 2

\* trades update_metrics is told about
MaxTrades == 1

\* strategy objects the registry constructs
MaxInstances == 2

(***************************************************************************)
(* Program constants and constructor arguments.                            *)
(***************************************************************************)
initial_balance == 160000

initial_capital == 160000

MaxAllocationPct == 80

DefaultMinConfidence == 60

ModerateMinConfidence == 65

MA20Window == 20

MA50Window == 50

StrongBuyCapPct == 10

MaxDrawdownPct == 15

NoLevel == 0

Symbols == {"BTC", "ETH"}

StrategyOrder == <<"conservative", "moderate">>

Strategies == {"conservative", "moderate"}

Prices == {0, 1, 2}

Timestamps == {1, 2, 3}

Absent == -1

Signals == {"STRONG_BUY", "BUY", "HOLD", "SELL", "STRONG_SELL"}

BuySignals == {"BUY", "STRONG_BUY"}

(***************************************************************************)
(* TradingDecision values a strategy can hand to the engine: confidence    *)
(* and position_size in percent, levels as prices.  A buying decision      *)
(* carries a position size; every other signal carries position_size 0 and *)
(* no levels.  The set holds a BUY with both levels on one price, the same *)
(* BUY below every configured minimum confidence, a STRONG_BUY without     *)
(* levels, and one decision of every other signal.                         *)
(***************************************************************************)
Decision(signal, confidence, position_size, stop_loss, take_profit) ==
    [signal |-> signal, confidence |-> confidence,
     position_size |-> position_size,
     stop_loss |-> stop_loss, take_profit |-> take_profit]

Decisions ==
    { Decision("BUY", 70, 50, 1, 1),
      Decision("BUY", 50, 50, 1, 1),
      Decision("STRONG_BUY", 70, 50, NoLevel, NoLevel),
      Decision("HOLD", 50, 0, NoLevel, NoLevel),
      Decision("SELL", 60, 0, NoLevel, NoLevel),
      Decision("STRONG_SELL", 60, 0, NoLevel, NoLevel) }

VARIABLES
    cash,             \* PortfolioSimulator.cash
    current_balance,  \* PortfolioSimulator.current_balance
    peak_balance,     \* PortfolioSimulator.peak_balance
    max_drawdown,     \* PortfolioSimulator.max_drawdown, the fraction n/d
    positions,        \* PortfolioSimulator.positions, in insertion order
    trade_history,    \* PortfolioSimulator.trade_history
    balance_history,  \* PortfolioSimulator.balance_history
    pc,               \* position inside process_market_data
    tick,             \* arguments of the running process_market_data call
    ticks,            \* number of process_market_data calls started
    current_capital,  \* SimpleBacktester.current_capital
    active_trades,    \* SimpleBacktester.active_trades, in insertion order
    completed_trades, \* SimpleBacktester.completed_trades
    equity_history,   \* SimpleBacktester.equity_history
    opened,           \* number of BacktestTrade objects created in this run
    run,              \* arguments and loop position of run_backtest
    results,          \* the map run_backtest returned
    threads,          \* the process_market_data calls of concurrent callers
    inputs,           \* the arguments of a call of strategy.analyze
    analyzed,         \* the strategy that was called and what it returned
    config,           \* BaseStrategy.config of a strategy object
    strategy_positions, \* BaseStrategy.positions of that strategy object
    metrics,          \* BaseStrategy.metrics of that strategy object
    returned,         \* what the last call on that strategy object returned
    reg_strategies,   \* StrategyRegistry._strategies: name -> class
    reg_instances,    \* StrategyRegistry._instances: name -> cached object
    class_meta,       \* the _registry_* attributes of each strategy class
    constructed,      \* the classes of the strategy objects constructed
    objects,          \* positions and metrics of each constructed object
    reg_returned,     \* what the last call on the registry returned
    sweep,            \* arguments and loop position of run_parameter_sweep
    summary,          \* what the summary calls returned since the last tick
    rerun             \* what the caller of run_backtest keeps of its first run

\* the callers that may run process_market_data at the same time
Threads == {1, 2}

\* a caller that has not called yet
NotCalled ==
    [pc |-> "ready", symbol |-> "BTC", price |-> 0, strategy |-> 1,
     decision |-> Decision("HOLD", 0, 0, NoLevel, NoLevel), value |-> 0]

\* no summary was asked for since the last call of process_market_data
NoSummary == [op |-> "none", repeated |-> FALSE, value |-> <<>>]

\* the caller has run no backtest yet: mode is "first", "replay" or "other",
\* answers holds what analyze of every strategy gave at each processed
\* symbol of the first run, asked counts the answers of the replay, and
\* earlier is how the first run ended
NoRerun ==
    [mode |-> "first", answers |-> <<>>, asked |-> 0,
     earlier |-> [pc |-> "new", results |-> <<>>]]

simVars == <<cash, current_balance, peak_balance, max_drawdown, positions,
             trade_history, balance_history, pc, tick, ticks, threads,
             summary>>

btVars == <<current_capital, active_trades, completed_trades, equity_history,
            opened, run, results>>

stratVars == <<inputs, analyzed, rerun>>

baseVars == <<config, strategy_positions, metrics, returned>>

regVars == <<reg_strategies, reg_instances, class_meta, constructed,
            objects, reg_returned>>

libVars == <<stratVars, baseVars, regVars, sweep>>

vars == <<simVars, btVars, libVars>>

(***************************************************************************)
(* Helpers.                                                                *)
(***************************************************************************)
Min(a, b) == IF a <= b THEN a ELSE b

RECURSIVE SumSeq(_)
SumSeq(s) == IF s = <<>> THEN 0 ELSE Head(s) + SumSeq(Tail(s))

\* a/b < c/d for a, c >= 0 and b, d > 0, without forming a product
RECURSIVE FracLess(_, _, _, _)
FracLess(a, b, c, d) ==
    IF (a \div b) # (c \div d) THEN (a \div b) < (c \div d)
    ELSE IF c % d = 0 THEN FALSE
    ELSE IF a % b = 0 THEN TRUE
    ELSE FracLess(d, c % d, b, a % b)

(***************************************************************************)
(* SimulationPosition.                                                     *)
(***************************************************************************)
current_value(pos) == pos.quantity * pos.entry_price

\* variant that takes the proceeds of the sale for the pnl
calculate_pnl_OfProceeds(pos, current_price) == current_price * pos.quantity

calculate_pnl(pos, current_price) ==
    (current_price - pos.entry_price) * pos.quantity

(***************************************************************************)
(* PortfolioSimulator._close_position: the cash returned and the SELL      *)
(* record appended for one position.                                       *)
(***************************************************************************)
close_value(pos, current_price) == pos.quantity * current_price

SellRecord(pos, current_price, reason) ==
    [action |-> "SELL", symbol |-> pos.symbol, strategy |-> pos.strategy_name,
     price |-> current_price, quantity |-> pos.quantity,
     value |-> close_value(pos, current_price),
     pnl |-> calculate_pnl(pos, current_price), reason |-> reason,
     id |-> pos.id]

\* closes is the list of _close_position calls, in order, each with the
\* position, the closing price and the reason
ClosedCash(closes) ==
    SumSeq([i \in 1..Len(closes) |-> close_value(closes[i].pos, closes[i].price)])

ClosedRecords(closes) ==
    [i \in 1..Len(closes) |->
        SellRecord(closes[i].pos, closes[i].price, closes[i].reason)]

(***************************************************************************)
(* PortfolioSimulator._update_positions: stop-loss first, then take-profit.*)
(***************************************************************************)
\* variant that checks the take-profit before the stop-loss
ExitReason_TakeProfitFirst(pos, symbol, current_price) ==
    IF pos.symbol # symbol THEN ""
    ELSE IF pos.take_profit # NoLevel /\ current_price >= pos.take_profit
         THEN "Take-Profit"
    ELSE IF pos.stop_loss # NoLevel /\ current_price <= pos.stop_loss
         THEN "Stop-Loss"
    ELSE ""

ExitReason(pos, symbol, current_price) ==
    IF pos.symbol # symbol THEN ""
    ELSE IF pos.stop_loss # NoLevel /\ current_price <= pos.stop_loss
         THEN "Stop-Loss"
    ELSE IF pos.take_profit # NoLevel /\ current_price >= pos.take_profit
         THEN "Take-Profit"
    ELSE ""

(***************************************************************************)
(* PortfolioSimulator._get_position.                                       *)
(***************************************************************************)
get_position(poss, symbol, strategy_name) ==
    \E i \in 1..Len(poss) :
        poss[i].symbol = symbol /\ poss[i].strategy_name = strategy_name

(***************************************************************************)
(* PortfolioSimulator._process_trading_decision: the size handed to        *)
(* _open_long_position, min(position_size * 1.5, 0.10) for STRONG_BUY.     *)
(***************************************************************************)
EnhancedSize(decision) ==
    IF decision.signal = "STRONG_BUY"
    THEN Min((decision.position_size * 3) \div 2, StrongBuyCapPct)
    ELSE decision.position_size

position_value(balance, sizePct) == (balance * sizePct) \div 100

NextId == Len(SelectSeq(trade_history, LAMBDA r : r.action = "BUY")) + 1

(***************************************************************************)
(* PortfolioSimulator._open_long_position: TRUE when the position is       *)
(* opened.  A price of 0 raises ZeroDivisionError at the quantity, before  *)
(* anything is written; process_market_data catches it.                    *)
(***************************************************************************)
\* variant that compares the position value with the balance, not the cash
SufficientCash_OfBalance(sizePct) ==
    ~(position_value(current_balance, sizePct) > current_balance)

\* "if position_value > self.cash: return"
SufficientCash(sizePct) == ~(position_value(current_balance, sizePct) > cash)

\* variant without the check for an existing position of the pair
OpenAccepted_NoPairCheck(symbol, strategy_name, sizePct, current_price) ==
    /\ Len(positions) < max_positions
    /\ current_price # 0
    /\ SufficientCash(sizePct)

OpenAccepted(symbol, strategy_name, sizePct, current_price) ==
    /\ ~get_position(positions, symbol, strategy_name)
    /\ Len(positions) < max_positions
    /\ current_price # 0
    /\ SufficientCash(sizePct)

open_long_position(symbol, strategy_name, decision, sizePct, current_price) ==
    IF OpenAccepted(symbol, strategy_name, sizePct, current_price)
    THEN LET value == position_value(current_balance, sizePct)
             quantity == value \div current_price
         IN /\ positions' = Append(positions,
                  [id |-> NextId, symbol |-> symbol,
                   strategy_name |-> strategy_name,
                   entry_price |-> current_price, quantity |-> quantity,
                   stop_loss |-> decision.stop_loss,
                   take_profit |-> decision.take_profit])
            /\ cash' = cash - value
            /\ trade_history' = Append(trade_history,
                  [action |-> "BUY", symbol |-> symbol,
                   strategy |-> strategy_name, price |-> current_price,
                   quantity |-> quantity, value |-> value,
                   pnl |-> 0, reason |-> "", id |-> NextId])
    ELSE UNCHANGED <<positions, cash, trade_history>>

(***************************************************************************)
(* PortfolioSimulator._close_positions_for_symbol.                         *)
(***************************************************************************)
\* variant that records the sales and leaves the positions in the dictionary
close_positions_for_symbol_KeepsOpen(symbol, current_price, reason) ==
    LET closing == SelectSeq(positions, LAMBDA p : p.symbol = symbol)
        closes == [i \in 1..Len(closing) |->
                      [pos |-> closing[i], price |-> current_price,
                       reason |-> reason]]
    IN /\ positions' = positions
       /\ cash' = cash + ClosedCash(closes)
       /\ trade_history' = trade_history \o ClosedRecords(closes)

\* variant that closes only the positions of the strategy that is running
close_positions_for_symbol_OwnOnly(symbol, current_price, reason) ==
    LET own(p) == p.symbol = symbol
                    /\ p.strategy_name = StrategyOrder[tick.strategy]
        closing == SelectSeq(positions, own)
        closes == [i \in 1..Len(closing) |->
                      [pos |-> closing[i], price |-> current_price,
                       reason |-> reason]]
    IN /\ positions' = SelectSeq(positions, LAMBDA p : ~own(p))
       /\ cash' = cash + ClosedCash(closes)
       /\ trade_history' = trade_history \o ClosedRecords(closes)

close_positions_for_symbol(symbol, current_price, reason) ==
    LET closing == SelectSeq(positions, LAMBDA p : p.symbol = symbol)
        closes == [i \in 1..Len(closing) |->
                      [pos |-> closing[i], price |-> current_price,
                       reason |-> reason]]
    IN /\ positions' = SelectSeq(positions, LAMBDA p : p.symbol # symbol)
       /\ cash' = cash + ClosedCash(closes)
       /\ trade_history' = trade_history \o ClosedRecords(closes)

(***************************************************************************)
(* process_market_data, step 1: _update_positions(symbol, current_price).  *)
(***************************************************************************)
update_positions(symbol, current_price) ==
    LET closing == SelectSeq(positions,
                      LAMBDA p : ExitReason(p, symbol, current_price) # "")
        closes == [i \in 1..Len(closing) |->
                      [pos |-> closing[i], price |-> current_price,
                       reason |-> ExitReason(closing[i], symbol,
                                             current_price)]]
    IN /\ positions' = SelectSeq(positions,
                      LAMBDA p : ExitReason(p, symbol, current_price) = "")
       /\ cash' = cash + ClosedCash(closes)
       /\ trade_history' = trade_history \o ClosedRecords(closes)

begin_tick(symbol, current_price) ==
    /\ pc = "idle"
    /\ run.pc = "new"
    /\ update_positions(symbol, current_price)
    /\ tick' = [symbol |-> symbol, price |-> current_price, strategy |-> 1]
    /\ ticks' = ticks + 1
    /\ pc' = "strategies"
    /\ UNCHANGED <<current_balance, peak_balance, max_drawdown,
                   balance_history, threads>>
    /\ summary' = NoSummary
    /\ UNCHANGED <<btVars, libVars>>

BeginTick(symbol, current_price) ==
    /\ ticks < MaxTicks
    /\ begin_tick(symbol, current_price)

(***************************************************************************)
(* process_market_data, step 2: one iteration of the strategy loop, with   *)
(* the decision strategy.analyze returned.                                 *)
(***************************************************************************)
RunStrategy(decision) ==
    /\ pc = "strategies"
    /\ LET strategy_name == StrategyOrder[tick.strategy]
       IN CASE decision.signal = "BUY" ->
                 open_long_position(tick.symbol, strategy_name, decision,
                                    EnhancedSize(decision), tick.price)
            [] decision.signal = "SELL" ->
                 close_positions_for_symbol(tick.symbol, tick.price,
                                            "Strategy Signal")
            [] decision.signal = "STRONG_BUY" ->
                 open_long_position(tick.symbol, strategy_name, decision,
                                    EnhancedSize(decision), tick.price)
            [] OTHER -> UNCHANGED <<positions, cash, trade_history>>
    /\ IF tick.strategy < Len(StrategyOrder)
       THEN /\ tick' = [tick EXCEPT !.strategy = @ + 1]
            /\ pc' = pc
       ELSE /\ tick' = tick
            /\ pc' = "portfolio"
    /\ UNCHANGED <<current_balance, peak_balance, max_drawdown,
                   balance_history, ticks, threads>>
    /\ UNCHANGED <<btVars, libVars, summary>>

(***************************************************************************)
(* process_market_data, step 2, when strategy.analyze raises: the except   *)
(* clause logs the error and the loop goes on with the next strategy.      *)
(***************************************************************************)
\* variant in which the exception leaves process_market_data
AnalyzeRaises_LeavesTick ==
    /\ pc = "strategies"
    /\ pc' = "idle"
    /\ UNCHANGED <<cash, current_balance, peak_balance, max_drawdown,
                   positions, trade_history, balance_history, tick, ticks,
                   threads>>
    /\ UNCHANGED <<btVars, libVars, summary>>

AnalyzeRaises ==
    /\ pc = "strategies"
    /\ IF tick.strategy < Len(StrategyOrder)
       THEN /\ tick' = [tick EXCEPT !.strategy = @ + 1]
            /\ pc' = pc
       ELSE /\ tick' = tick
            /\ pc' = "portfolio"
    /\ UNCHANGED <<cash, current_balance, peak_balance, max_drawdown,
                   positions, trade_history, balance_history, ticks,
                   threads>>
    /\ UNCHANGED <<btVars, libVars, summary>>

(***************************************************************************)
(* process_market_data, step 3: _update_portfolio_value.                   *)
(***************************************************************************)
positions_value(poss) ==
    SumSeq([i \in 1..Len(poss) |-> current_value(poss[i])])

update_portfolio_value ==
    LET balance == cash + positions_value(positions)
        peak == IF balance > peak_balance THEN balance ELSE peak_balance
    IN /\ current_balance' = balance
       /\ peak_balance' = peak
       /\ max_drawdown' =
              IF FracLess(max_drawdown.n, max_drawdown.d, peak - balance, peak)
              THEN [n |-> peak - balance, d |-> peak]
              ELSE max_drawdown
       /\ balance_history' = Append(balance_history,
              [total_balance |-> balance, cash |-> cash,
               positions_value |-> positions_value(positions),
               positions_count |-> Len(positions)])

UpdatePortfolioValue ==
    /\ pc = "portfolio"
    /\ update_portfolio_value
    /\ pc' = "risk"
    /\ UNCHANGED <<cash, positions, trade_history, tick, ticks, threads>>
    /\ UNCHANGED <<btVars, libVars, summary>>

(***************************************************************************)
(* process_market_data, step 4: _apply_risk_management.                    *)
(***************************************************************************)
\* variant with a ceiling of one half
DrawdownExceeded_AtHalf(dd) == dd.n * 2 > dd.d

DrawdownExceeded(dd) == dd.n * 100 > MaxDrawdownPct * dd.d

\* variant that closes at the price of the tick
apply_risk_management_AtTickPrice ==
    IF DrawdownExceeded(max_drawdown)
    THEN LET closes == [i \in 1..Len(positions) |->
                           [pos |-> positions[i], price |-> tick.price,
                            reason |-> "Risk Management"]]
         IN /\ positions' = <<>>
            /\ cash' = cash + ClosedCash(closes)
            /\ trade_history' = trade_history \o ClosedRecords(closes)
    ELSE UNCHANGED <<positions, cash, trade_history>>

apply_risk_management ==
    IF DrawdownExceeded(max_drawdown)
    THEN LET closes == [i \in 1..Len(positions) |->
                           [pos |-> positions[i],
                            price |-> positions[i].entry_price,
                            reason |-> "Risk Management"]]
         IN /\ positions' = <<>>
            /\ cash' = cash + ClosedCash(closes)
            /\ trade_history' = trade_history \o ClosedRecords(closes)
    ELSE UNCHANGED <<positions, cash, trade_history>>

ApplyRiskManagement ==
    /\ pc = "risk"
    /\ apply_risk_management
    /\ pc' = "idle"
    /\ UNCHANGED <<current_balance, peak_balance, max_drawdown,
                   balance_history, tick, ticks, threads>>
    /\ UNCHANGED <<btVars, libVars, summary>>

\* one more call of process_market_data once max_drawdown is above the
\* ceiling
TickAfterLatch(symbol, current_price) ==
    /\ ticks = MaxTicks
    /\ DrawdownExceeded(max_drawdown)
    /\ begin_tick(symbol, current_price)

(***************************************************************************)
(* PortfolioSimulator.get_performance_summary and get_current_status.      *)
(* Ratios are kept as the fraction n/d of the division the code performs.  *)
(* start_date, end_date and timestamp are clock readings and no part of    *)
(* the totals.                                                             *)
(***************************************************************************)
\* _calculate_daily_returns divides by a recorded total_balance of zero
daily_returns_raises(history) ==
    \E i \in 1..(Len(history) - 1) : history[i].total_balance = 0

\* _calculate_daily_returns
calculate_daily_returns(history) ==
    IF Len(history) < 2
    THEN <<[n |-> 0, d |-> 1]>>
    ELSE [i \in 1..(Len(history) - 1) |->
             [n |-> history[i + 1].total_balance - history[i].total_balance,
              d |-> history[i].total_balance]]

\* _calculate_sharpe_ratio: 0.0 for an empty list and for a list of zeros,
\* whose average is zero; for one return r the variance (r - r) ** 2 is zero.
\* Otherwise the float the formula yields for these returns, kept as the
\* formula applied to the list.
calculate_sharpe_ratio(daily_returns) ==
    IF \/ daily_returns = <<>>
       \/ \A i \in 1..Len(daily_returns) : daily_returns[i].n = 0
       \/ Len(daily_returns) = 1
    THEN [zero |-> TRUE, returns |-> <<>>]
    ELSE [zero |-> FALSE, returns |-> daily_returns]

\* the totals of the SimulationResult get_performance_summary builds
performance_totals(balance, history, trades, drawdown) ==
    LET total_trades == Len(trades)
        winning_trades == Len(SelectSeq(trades, LAMBDA t : t.pnl > 0))
        losing_trades == Len(SelectSeq(trades, LAMBDA t : t.pnl < 0))
        daily_returns == calculate_daily_returns(history)
    IN [raised |-> FALSE,
        initial_balance |-> initial_balance,
        final_balance |-> balance,
        total_return |-> [n |-> balance - initial_balance,
                          d |-> initial_balance],
        total_trades |-> total_trades,
        winning_trades |-> winning_trades,
        losing_trades |-> losing_trades,
        win_rate |-> IF total_trades > 0
                     THEN [n |-> winning_trades, d |-> total_trades]
                     ELSE [n |-> 0, d |-> 1],
        max_drawdown |-> drawdown,
        sharpe_ratio |-> calculate_sharpe_ratio(daily_returns),
        positions_history |-> trades,
        daily_returns |-> daily_returns]

\* the ZeroDivisionError of _calculate_daily_returns leaves the call
SummaryRaised == [raised |-> TRUE]

get_performance_summary ==
    IF daily_returns_raises(balance_history)
    THEN SummaryRaised
    ELSE performance_totals(current_balance, balance_history, trade_history,
                            max_drawdown)

\* the dictionary get_current_status builds
get_current_status ==
    [raised |-> FALSE,
     total_balance |-> current_balance,
     cash |-> cash,
     positions_value |-> positions_value(positions),
     positions_count |-> Len(positions),
     total_return |-> [n |-> current_balance - initial_balance,
                       d |-> initial_balance],
     max_drawdown |-> max_drawdown,
     active_strategies |-> StrategyOrder,
     positions |-> [i \in 1..Len(positions) |->
                       [symbol |-> positions[i].symbol,
                        strategy |-> positions[i].strategy_name,
                        entry_price |-> positions[i].entry_price,
                        quantity |-> positions[i].quantity,
                        current_value |-> current_value(positions[i]),
                        unrealized_pnl |->
                            calculate_pnl(positions[i],
                                          positions[i].entry_price)]]]

\* what a summary call leaves in summary: its value, and whether the call
\* before it, with no tick in between, was the same call
Summarised(op, value) ==
    [op |-> op, repeated |-> summary.op = op, value |-> value]

\* variant that records the balance it reports, as a tick does
GetPerformanceSummary_RecordsBalance ==
    /\ pc = "idle"
    /\ summary' = Summarised("get_performance_summary",
                             get_performance_summary)
    /\ balance_history' = Append(balance_history,
           [total_balance |-> current_balance, cash |-> cash,
            positions_value |-> positions_value(positions),
            positions_count |-> Len(positions)])
    /\ UNCHANGED <<cash, current_balance, peak_balance, max_drawdown,
                   positions, trade_history, pc, tick, ticks, threads>>
    /\ UNCHANGED <<btVars, libVars>>

GetPerformanceSummary ==
    /\ pc = "idle"
    /\ summary' = Summarised("get_performance_summary",
                             get_performance_summary)
    /\ UNCHANGED <<cash, current_balance, peak_balance, max_drawdown,
                   positions, trade_history, balance_history, pc, tick,
                   ticks, threads>>
    /\ UNCHANGED <<btVars, libVars>>

GetCurrentStatus ==
    /\ pc = "idle"
    /\ summary' = Summarised("get_current_status", get_current_status)
    /\ UNCHANGED <<cash, current_balance, peak_balance, max_drawdown,
                   positions, trade_history, balance_history, pc, tick,
                   ticks, threads>>
    /\ UNCHANGED <<btVars, libVars>>

(***************************************************************************)
(* SimpleBacktester.  historical_data maps a symbol to its list of         *)
(* MarketData, of which the model keeps timestamp and price; a list holds  *)
(* one data point per timestamp, in chronological order.  The ledger       *)
(* operators work on a record L with the fields current_capital,           *)
(* active_trades, completed_trades and opened.                             *)
(***************************************************************************)
SymbolOrder == <<"BTC", "ETH">>

TimeOrder == <<1, 2, 3>>

\* the series of one symbol: a data point for every timestamp f gives a price
SeriesOf(f) ==
    SelectSeq([i \in 1..Len(TimeOrder) |->
                  [timestamp |-> TimeOrder[i], price |-> f[TimeOrder[i]]]],
              LAMBDA point : point.price # Absent)

PointCount(h) == SumSeq([i \in 1..Len(SymbolOrder) |-> Len(h[SymbolOrder[i]])])

Histories ==
    { h \in { [s \in Symbols |-> SeriesOf(f[s])] :
                 f \in [Symbols -> [Timestamps -> Prices \cup {Absent}]] } :
        PointCount(h) <= MaxPoints }

\* the whole data, a range ending before the last timestamp and a range
\* starting after the first
DateRanges ==
    { [start_date |-> 1, end_date |-> 3], [start_date |-> 1, end_date |-> 2],
      [start_date |-> 2, end_date |-> 3] }

RECURSIVE SortedSeq(_)
SortedSeq(S) ==
    IF S = {} THEN <<>>
    ELSE LET least == CHOOSE x \in S : \A y \in S : x <= y
         IN <<least>> \o SortedSeq(S \ {least})

(***************************************************************************)
(* run_backtest: the sorted union of the timestamps inside                 *)
(* [start_date, end_date].                                                 *)
(***************************************************************************)
\* variant that only bounds the timestamps from above
all_timestamps_NoStart(h, start, end) ==
    { t \in Timestamps :
        /\ t <= end
        /\ \E s \in DOMAIN h : \E i \in 1..Len(h[s]) : h[s][i].timestamp = t }

all_timestamps(h, start, end) ==
    { t \in Timestamps :
        /\ start <= t /\ t <= end
        /\ \E s \in DOMAIN h : \E i \in 1..Len(h[s]) : h[s][i].timestamp = t }

sorted_timestamps(h, start, end) == SortedSeq(all_timestamps(h, start, end))

(***************************************************************************)
(* _process_timestamp: the first data point of the series at timestamp, 0  *)
(* when there is none.                                                     *)
(***************************************************************************)
current_data(series, timestamp) ==
    IF \E i \in 1..Len(series) : series[i].timestamp = timestamp
    THEN CHOOSE i \in 1..Len(series) :
            /\ series[i].timestamp = timestamp
            /\ \A j \in 1..(i - 1) : series[j].timestamp # timestamp
    ELSE 0

(***************************************************************************)
(* _calculate_portfolio_value and _close_all_positions: the price of the   *)
(* last data point of the list with timestamp <= limit; 0 stands for None  *)
(* (both are falsy in "if current_price:").                                *)
(***************************************************************************)
\* variant that takes the last data point of the list, whatever its time
last_price_NoLimit(series, limit) ==
    IF series = <<>> THEN 0 ELSE series[Len(series)].price

last_price(series, limit) ==
    LET upTo == SelectSeq(series, LAMBDA point : point.timestamp <= limit)
    IN IF upTo = <<>> THEN 0 ELSE upTo[Len(upTo)].price

(***************************************************************************)
(* _create_mock_indicators: the prices it collects and the moving averages.*)
(* The band position divides by bb_upper - bb_lower, which is 0 at price 0:*)
(* ZeroDivisionError, which nothing in run_backtest catches.               *)
(***************************************************************************)
LastN(s, n) == IF Len(s) <= n THEN s ELSE SubSeq(s, Len(s) - n + 1, Len(s))

Mean(s) == SumSeq(s) \div Len(s)

recent_prices(series, timestamp) ==
    LET upTo == SelectSeq(series, LAMBDA point : point.timestamp <= timestamp)
    IN LastN([i \in 1..Len(upTo) |-> upTo[i].price], MA50Window)

create_mock_indicators(price, series, timestamp) ==
    LET recent == recent_prices(series, timestamp)
        ma20 == IF Len(recent) >= MA20Window
                THEN Mean(LastN(recent, MA20Window)) ELSE price
        ma50 == IF Len(recent) >= MA50Window
                THEN Mean(LastN(recent, MA50Window)) ELSE price
    IN [raises |-> price = 0, ma20 |-> ma20, ma50 |-> ma50, ma200 |-> ma50]

(***************************************************************************)
(* BaseStrategy.validate_signal, for a strategy whose own position ledger  *)
(* is empty and which is enabled (neither engine changes either).          *)
(***************************************************************************)
min_confidence(strategy_name) ==
    IF strategy_name = "moderate" THEN ModerateMinConfidence
    ELSE DefaultMinConfidence

validate_signal(decision, strategy_name) ==
    /\ decision.confidence >= min_confidence(strategy_name)
    /\ ~(decision.position_size > 100 \/ decision.position_size <= 0)

(***************************************************************************)
(* The dictionary active_trades as a list of trades in insertion order.    *)
(***************************************************************************)
HasTrade(trades, symbol) == \E i \in 1..Len(trades) : trades[i].symbol = symbol

TradeOf(trades, symbol) ==
    trades[CHOOSE i \in 1..Len(trades) : trades[i].symbol = symbol]

\* active_trades[symbol] = trade
SetTrade(trades, symbol, trade) ==
    IF HasTrade(trades, symbol)
    THEN [i \in 1..Len(trades) |->
             IF trades[i].symbol = symbol THEN trade ELSE trades[i]]
    ELSE Append(trades, trade)

\* del active_trades[symbol]
DelTrade(trades, symbol) == SelectSeq(trades, LAMBDA t : t.symbol # symbol)

(***************************************************************************)
(* BacktestTrade.calculate_results: skipped when exit_price is falsy.      *)
(***************************************************************************)
\* variant that counts a trade without gain as a winner
calculate_results_WinnerAtZero(trade) ==
    IF trade.exit_price # 0
    THEN LET pnl == (trade.exit_price - trade.entry_price) * trade.quantity
         IN [trade EXCEPT
                !.pnl = pnl,
                !.pnl_percentage =
                    ((trade.exit_price - trade.entry_price) * 100)
                        \div trade.entry_price,
                !.duration_hours = trade.exit_time - trade.entry_time,
                !.is_winner = pnl >= 0]
    ELSE trade

calculate_results(trade) ==
    IF trade.exit_price # 0
    THEN LET pnl == (trade.exit_price - trade.entry_price) * trade.quantity
         IN [trade EXCEPT
                !.pnl = pnl,
                !.pnl_percentage =
                    ((trade.exit_price - trade.entry_price) * 100)
                        \div trade.entry_price,
                !.duration_hours = trade.exit_time - trade.entry_time,
                !.is_winner = pnl > 0]
    ELSE trade

(***************************************************************************)
(* SimpleBacktester._close_trade.                                          *)
(***************************************************************************)
\* variant that returns the capital the trade was opened with
close_trade_AtEntryValue(L, trade, exit_price, exit_time, exit_reason) ==
    LET closed == calculate_results(
                      [trade EXCEPT !.exit_price = exit_price,
                                    !.exit_time = exit_time,
                                    !.exit_reason = exit_reason])
    IN [L EXCEPT
           !.current_capital = @ + trade.quantity * trade.entry_price,
           !.completed_trades = Append(@, closed),
           !.active_trades = DelTrade(@, trade.symbol)]

close_trade(L, trade, exit_price, exit_time, exit_reason) ==
    LET closed == calculate_results(
                      [trade EXCEPT !.exit_price = exit_price,
                                    !.exit_time = exit_time,
                                    !.exit_reason = exit_reason])
    IN [L EXCEPT
           !.current_capital = @ + trade.quantity * exit_price,
           !.completed_trades = Append(@, closed),
           !.active_trades = DelTrade(@, trade.symbol)]

(***************************************************************************)
(* SimpleBacktester._open_trade.                                           *)
(***************************************************************************)
open_trade(L, strategy_name, symbol, price, decision, timestamp) ==
    LET available_capital == (L.current_capital * MaxAllocationPct) \div 100
        value == (available_capital * decision.position_size) \div 100
        quantity == value \div price
        trade == [id |-> L.opened + 1,
                  strategy_name |-> strategy_name, symbol |-> symbol,
                  entry_time |-> timestamp, exit_time |-> 0,
                  entry_price |-> price, exit_price |-> 0,
                  quantity |-> quantity, signal |-> decision.signal,
                  confidence |-> decision.confidence,
                  stop_loss |-> decision.stop_loss,
                  take_profit |-> decision.take_profit,
                  pnl |-> 0, pnl_percentage |-> 0, duration_hours |-> 0,
                  exit_reason |-> "", is_winner |-> FALSE]
    IN [L EXCEPT
           !.active_trades = SetTrade(@, symbol, trade),
           !.current_capital = @ - value,
           !.opened = @ + 1]

(***************************************************************************)
(* SimpleBacktester._check_exit_conditions; d[s] is what strategy s's      *)
(* analyze returns for this data point.                                    *)
(***************************************************************************)
BtExitReason(trade, price, d) ==
    IF trade.stop_loss # NoLevel /\ price <= trade.stop_loss
    THEN "Stop Loss"
    ELSE IF trade.take_profit # NoLevel /\ price >= trade.take_profit
    THEN "Take Profit"
    ELSE IF d[trade.strategy_name].signal = "SELL"
    THEN "Strategy Signal: TradingSignal.SELL"
    ELSE IF d[trade.strategy_name].signal = "STRONG_SELL"
    THEN "Strategy Signal: TradingSignal.STRONG_SELL"
    ELSE ""

check_exit_conditions(L, symbol, price, timestamp, d) ==
    IF ~HasTrade(L.active_trades, symbol) THEN L
    ELSE LET trade == TradeOf(L.active_trades, symbol)
             reason == BtExitReason(trade, price, d)
         IN IF reason = "" THEN L
            ELSE close_trade(L, trade, price, timestamp, reason)

(***************************************************************************)
(* SimpleBacktester._check_entry_signals, behind the guard of              *)
(* _process_timestamp that no trade is open on the symbol.                 *)
(***************************************************************************)
\* variant without the guard of the strategy loop
EntryAllowed_Always(L, symbol) == TRUE

EntryAllowed(L, symbol) == ~HasTrade(L.active_trades, symbol)

check_entry_signals(L, strategy_name, symbol, price, timestamp, d) ==
    IF /\ d[strategy_name].signal \in BuySignals
       /\ validate_signal(d[strategy_name], strategy_name)
    THEN open_trade(L, strategy_name, symbol, price, d[strategy_name], timestamp)
    ELSE L

RECURSIVE EntryLoop(_, _, _, _, _, _)
EntryLoop(L, k, symbol, price, timestamp, d) ==
    IF k > Len(StrategyOrder) THEN L
    ELSE EntryLoop(
             IF EntryAllowed(L, symbol)
             THEN check_entry_signals(L, StrategyOrder[k], symbol, price,
                                      timestamp, d)
             ELSE L,
             k + 1, symbol, price, timestamp, d)

(***************************************************************************)
(* SimpleBacktester._process_timestamp, one iteration of its symbol loop.  *)
(***************************************************************************)
ProcessRaises(h, timestamp, symbol) ==
    LET idx == current_data(h[symbol], timestamp)
    IN /\ idx # 0
       /\ create_mock_indicators(h[symbol][idx].price, h[symbol], timestamp).raises

process_symbol(L, h, timestamp, symbol, d) ==
    LET idx == current_data(h[symbol], timestamp)
    IN IF idx = 0 THEN L
       ELSE LET price == h[symbol][idx].price
            IN EntryLoop(check_exit_conditions(L, symbol, price, timestamp, d),
                         1, symbol, price, timestamp, d)

(***************************************************************************)
(* SimpleBacktester._calculate_portfolio_value.                            *)
(***************************************************************************)
calculate_portfolio_value(L, timestamp, h) ==
    L.current_capital +
    SumSeq([i \in 1..Len(L.active_trades) |->
               L.active_trades[i].quantity *
               last_price(h[L.active_trades[i].symbol], timestamp)])

(***************************************************************************)
(* SimpleBacktester._close_all_positions: over a snapshot of active_trades;*)
(* a trade whose last price is falsy stays open.                           *)
(***************************************************************************)
RECURSIVE CloseAllFrom(_, _, _, _)
CloseAllFrom(L, snapshot, end_date, h) ==
    IF snapshot = <<>> THEN L
    ELSE LET trade == Head(snapshot)
             price == last_price(h[trade.symbol], end_date)
         IN CloseAllFrom(
                IF price # 0
                THEN close_trade(L, trade, price, end_date, "Backtest End")
                ELSE L,
                Tail(snapshot), end_date, h)

\* variant that closes the first active trade only
close_all_positions_FirstOnly(L, end_date, h) ==
    CloseAllFrom(L, SubSeq(L.active_trades, 1, Min(1, Len(L.active_trades))),
                 end_date, h)

close_all_positions(L, end_date, h) ==
    CloseAllFrom(L, L.active_trades, end_date, h)

(***************************************************************************)
(* SimpleBacktester._generate_results: one BacktestResults per strategy    *)
(* that has a completed trade.                                             *)
(***************************************************************************)
StrategyTrades(trades, strategy_name) ==
    SelectSeq(trades, LAMBDA t : t.strategy_name = strategy_name)

generate_results(trades, equity, start, end) ==
    [s \in { trades[i].strategy_name : i \in 1..Len(trades) } |->
        LET strategy_trades == StrategyTrades(trades, s)
            total_pnl == SumSeq([i \in 1..Len(strategy_trades) |->
                                    strategy_trades[i].pnl])
        IN [strategy_name |-> s, start_date |-> start, end_date |-> end,
            initial_capital |-> initial_capital,
            final_capital |-> initial_capital + total_pnl,
            total_return |-> total_pnl,
            total_trades |-> Len(strategy_trades),
            winning_trades |->
                Len(SelectSeq(strategy_trades, LAMBDA t : t.is_winner)),
            losing_trades |->
                Len(SelectSeq(strategy_trades, LAMBDA t : ~t.is_winner)),
            trades |-> strategy_trades,
            equity_curve |-> equity]]

Ledger ==
    [current_capital |-> current_capital, active_trades |-> active_trades,
     completed_trades |-> completed_trades, opened |-> opened]

SetLedger(L) ==
    /\ current_capital' = L.current_capital
    /\ active_trades' = L.active_trades
    /\ completed_trades' = L.completed_trades
    /\ opened' = L.opened

(***************************************************************************)
(* run_backtest, lines 128-144: reset and collect the timestamps.          *)
(***************************************************************************)
\* variant whose reset leaves the completed trades in place
run_backtest_begin_KeepsTrades(h, start, end) ==
    /\ current_capital' = initial_capital
    /\ active_trades' = <<>>
    /\ completed_trades' = completed_trades
    /\ equity_history' = <<>>
    /\ opened' = Len(completed_trades)
    /\ run' = [pc |-> IF sorted_timestamps(h, start, end) = <<>>
                      THEN "closing" ELSE "loop",
               historical_data |-> h, start_date |-> start, end_date |-> end,
               sorted_timestamps |-> sorted_timestamps(h, start, end),
               i |-> 1, symbol |-> 1]
    /\ UNCHANGED results

run_backtest_begin(h, start, end) ==
    /\ current_capital' = initial_capital
    /\ active_trades' = <<>>
    /\ completed_trades' = <<>>
    /\ equity_history' = <<>>
    /\ opened' = 0
    /\ run' = [pc |-> IF sorted_timestamps(h, start, end) = <<>>
                      THEN "closing" ELSE "loop",
               historical_data |-> h, start_date |-> start, end_date |-> end,
               sorted_timestamps |-> sorted_timestamps(h, start, end),
               i |-> 1, symbol |-> 1]
    /\ UNCHANGED results

\* run_backtest called on a backtester that has not run yet
RunBacktest(h, start, end) ==
    /\ run.pc = "new"
    /\ ticks = 0
    /\ run_backtest_begin(h, start, end)
    /\ UNCHANGED <<simVars, libVars>>

\* run_backtest called again on a backtester whose first run has returned
\* or raised
RunBacktestAgain(h, start, end) ==
    /\ run.pc \in {"returned", "raised"}
    /\ rerun.mode = "first"
    /\ run_backtest_begin(h, start, end)
    /\ rerun' =
           IF /\ h = run.historical_data
              /\ start = run.start_date
              /\ end = run.end_date
           THEN [rerun EXCEPT !.mode = "replay",
                              !.earlier = [pc |-> run.pc, results |-> results]]
           ELSE [rerun EXCEPT !.mode = "other", !.answers = <<>>,
                              !.earlier = [pc |-> run.pc, results |-> results]]
    /\ UNCHANGED <<simVars, inputs, analyzed, baseVars, regVars, sweep>>

CurrentTimestamp == run.sorted_timestamps[run.i]

(***************************************************************************)
(* run_backtest, line 151: _process_timestamp, one symbol at a time.       *)
(* SkipSymbol is the iteration of a symbol without data at the timestamp   *)
(* ("continue"), RaiseInProcess the one that _create_mock_indicators       *)
(* aborts, ProcessSymbol every other.                                      *)
(***************************************************************************)
HasData == current_data(run.historical_data[SymbolOrder[run.symbol]],
                        CurrentTimestamp) # 0

SkipSymbol ==
    /\ run.pc = "loop"
    /\ run.symbol <= Len(SymbolOrder)
    /\ ~HasData
    /\ run' = [run EXCEPT !.symbol = @ + 1]
    /\ UNCHANGED <<current_capital, active_trades, completed_trades, opened,
                   equity_history, results>>
    /\ UNCHANGED <<simVars, libVars>>

RaiseInProcess ==
    /\ run.pc = "loop"
    /\ run.symbol <= Len(SymbolOrder)
    /\ ProcessRaises(run.historical_data, CurrentTimestamp,
                     SymbolOrder[run.symbol])
    /\ run' = [run EXCEPT !.pc = "raised"]
    /\ UNCHANGED <<current_capital, active_trades, completed_trades, opened,
                   equity_history, results>>
    /\ UNCHANGED <<simVars, libVars>>

\* variant in which _open_trade tells the strategy about the trade, as
\* strategy.add_position would
ProcessSymbol_AddsPosition(d) ==
    /\ run.pc = "loop"
    /\ run.symbol <= Len(SymbolOrder)
    /\ HasData
    /\ ~ProcessRaises(run.historical_data, CurrentTimestamp,
                      SymbolOrder[run.symbol])
    /\ run' = [run EXCEPT !.symbol = @ + 1]
    /\ LET symbol == SymbolOrder[run.symbol]
           after == process_symbol(Ledger, run.historical_data,
                                   CurrentTimestamp, symbol, d)
       IN /\ SetLedger(after)
          /\ strategy_positions' =
                 IF after.opened > opened
                 THEN [strategy_positions EXCEPT ![symbol].held = TRUE]
                 ELSE strategy_positions
    /\ UNCHANGED <<equity_history, results>>
    /\ UNCHANGED <<simVars, stratVars, config, metrics, returned, regVars,
                   sweep>>

\* the iteration on the backtester, d being what analyze of every strategy
\* gives
process_symbol_step(d) ==
    /\ run.pc = "loop"
    /\ run.symbol <= Len(SymbolOrder)
    /\ HasData
    /\ ~ProcessRaises(run.historical_data, CurrentTimestamp,
                      SymbolOrder[run.symbol])
    /\ run' = [run EXCEPT !.symbol = @ + 1]
    /\ SetLedger(process_symbol(Ledger, run.historical_data, CurrentTimestamp,
                                SymbolOrder[run.symbol], d))
    /\ UNCHANGED <<equity_history, results>>

ProcessSymbol(d) ==
    /\ process_symbol_step(d)
    /\ UNCHANGED <<simVars, libVars>>

\* the iteration in the first run of a caller that runs twice
FirstProcessSymbol(d) ==
    /\ rerun.mode = "first"
    /\ process_symbol_step(d)
    /\ rerun' = [rerun EXCEPT !.answers = Append(@, d)]
    /\ UNCHANGED <<simVars, inputs, analyzed, baseVars, regVars, sweep>>

\* the iteration in a second run on the data and the date range of the
\* first: the strategies are called on the arguments of the first run and
\* answer as they did
ReplayProcessSymbol ==
    /\ rerun.mode = "replay"
    /\ rerun.asked < Len(rerun.answers)
    /\ process_symbol_step(rerun.answers[rerun.asked + 1])
    /\ rerun' = [rerun EXCEPT !.asked = @ + 1]
    /\ UNCHANGED <<simVars, inputs, analyzed, baseVars, regVars, sweep>>

(***************************************************************************)
(* run_backtest, lines 153-155: the equity sample of the timestamp.        *)
(***************************************************************************)
RecordEquity ==
    /\ run.pc = "loop"
    /\ run.symbol > Len(SymbolOrder)
    /\ equity_history' = Append(equity_history,
           <<CurrentTimestamp,
             calculate_portfolio_value(Ledger, CurrentTimestamp,
                                       run.historical_data)>>)
    /\ run' = [run EXCEPT
                  !.i = @ + 1, !.symbol = 1,
                  !.pc = IF run.i = Len(run.sorted_timestamps)
                         THEN "closing" ELSE "loop"]
    /\ UNCHANGED <<current_capital, active_trades, completed_trades, opened,
                   results>>
    /\ UNCHANGED <<simVars, libVars>>

(***************************************************************************)
(* run_backtest, lines 157-161: close what is open, build the results.     *)
(***************************************************************************)
FinishBacktest ==
    /\ run.pc = "closing"
    /\ LET L == close_all_positions(Ledger, run.end_date, run.historical_data)
       IN /\ SetLedger(L)
          /\ results' = generate_results(L.completed_trades, equity_history,
                                         run.start_date, run.end_date)
    /\ run' = [run EXCEPT !.pc = "returned"]
    /\ UNCHANGED equity_history
    /\ UNCHANGED <<simVars, libVars>>

(***************************************************************************)
(* The registered strategies, ConservativeTrendStrategy and                *)
(* ModerateMomentumStrategy.  analyze is a function of the price, the      *)
(* indicators and the news.  Units: rsi, bb_position, sentiment_score and  *)
(* the moving averages as they are; atr_percentage and volume_ratio in     *)
(* tenths; the macd values in units of macd_threshold; confidence and the  *)
(* signal strengths in percent; position_size in units of 1/SizeScale;     *)
(* stop_loss and take_profit in units of 1/LevelScale of the price unit.   *)
(***************************************************************************)
SizeScale == 10000000

LevelScale == 100000

\* the None of an Optional[float] level or of the news argument
None == -1

CONSERVATIVE_CONFIG ==
    [max_position_size |-> 500000,       \* 0.05
     stop_loss_atr_multiplier |-> 20,    \* 2.0, in tenths
     take_profit_ratio |-> 30]           \* 3.0, in tenths

MODERATE_CONFIG ==
    [max_position_size |-> 800000,       \* 0.08
     min_position_size |-> 200000,       \* 0.02
     macd_threshold |-> 1,               \* 0.0001
     bb_breakout_threshold |-> 80,
     bb_oversold_threshold |-> 20,
     stop_loss_atr_multiplier |-> 15,    \* 1.5, in tenths
     take_profit_ratio |-> 25,           \* 2.5, in tenths
     max_atr_percentage |-> 40,          \* 4.0
     min_atr_percentage |-> 5,           \* 0.5
     min_volume_ratio |-> 12,            \* 1.2
     volume_spike_threshold |-> 20,      \* 2.0
     min_news_sentiment |-> -2,
     min_confidence_buy |-> 65,
     min_confidence_sell |-> 60]

\* the inputs of analyze the model draws from
Indicators ==
    [rsi : {30, 50, 70},
     macd : {-1, 1}, macd_signal : {0}, macd_histogram : {-2, 0, 2},
     ma20 : {100, 103}, ma50 : {101, 102, 103}, ma200 : {100},
     bb_position : {10, 20, 40, 60, 90, 95},
     atr_percentage : {0, 4, 5, 25, 30, 35, 40, 45},
     volume_ratio : {5, 10, 12, 20}]

NewsItems ==
    { [is_critical |-> TRUE, sentiment_score |-> -5],
      [is_critical |-> TRUE, sentiment_score |-> 5],
      [is_critical |-> FALSE, sentiment_score |-> -3],
      [is_critical |-> FALSE, sentiment_score |-> 0] }

\* news is None or a NewsAnalysis
News ==
    {[given |-> FALSE, is_critical |-> FALSE, sentiment_score |-> 0]} \cup
    { [given |-> TRUE, is_critical |-> n.is_critical,
       sentiment_score |-> n.sentiment_score] : n \in NewsItems }

\* a call of analyze; raises marks a call whose indicators argument is not a
\* TechnicalIndicators object, so that reading it raises inside analyze
Markets ==
    [price : {1, 2}, indicators : Indicators, news : News, raises : {FALSE}]
    \cup
    { [price |-> 1, indicators |-> CHOOSE i \in Indicators : TRUE,
       news |-> CHOOSE n \in News : ~n.given, raises |-> TRUE] }

Max(a, b) == IF a >= b THEN a ELSE b

Abs(a) == IF a < 0 THEN -a ELSE a

\* variant whose except branch keeps a confidence of 0.5
AnalysisError_HalfConfidence == Decision("HOLD", 50, 0, None, None)

\* the decision of the except branch of analyze
AnalysisError == Decision("HOLD", 0, 0, None, None)

(***************************************************************************)
(* ConservativeTrendStrategy.                                              *)
(***************************************************************************)
\* variant without the 1% buffer
is_trend_bullish_NoBuffer(indicators) == indicators.ma50 > indicators.ma200

is_trend_bullish(indicators) == indicators.ma50 * 100 > indicators.ma200 * 101

get_rsi_signal(indicators) ==
    IF indicators.rsi <= 30 THEN "oversold"
    ELSE IF indicators.rsi >= 70 THEN "overbought"
    ELSE "neutral"

conservative_is_volatility_acceptable(indicators) ==
    indicators.atr_percentage <= 30

is_news_positive(news) ==
    IF ~news.given THEN TRUE
    ELSE news.sentiment_score >= -3 /\ ~news.is_critical

combine_signals(trend_bullish, rsi_signal, volatility_ok, news_ok) ==
    IF /\ trend_bullish /\ rsi_signal \in {"oversold", "neutral"}
       /\ volatility_ok /\ news_ok
    THEN [signal |-> "BUY",
          confidence |-> IF rsi_signal = "oversold" THEN 80 ELSE 70]
    ELSE IF \/ ~trend_bullish \/ rsi_signal = "overbought"
            \/ ~volatility_ok \/ ~news_ok
    THEN [signal |-> "SELL", confidence |-> 60]
    ELSE [signal |-> "HOLD", confidence |-> 50]

\* variant that sizes every decision like a BUY
conservative_calculate_position_size_AnySignal(signal) ==
    CONSERVATIVE_CONFIG.max_position_size

conservative_calculate_position_size(signal) ==
    IF signal \in BuySignals THEN CONSERVATIVE_CONFIG.max_position_size ELSE 0

\* atr_estimate = price * 0.02
conservative_stop_distance(price) ==
    (((price * LevelScale * 2) \div 100)
        * CONSERVATIVE_CONFIG.stop_loss_atr_multiplier) \div 10

conservative_calculate_stop_loss(price, signal) ==
    IF signal \in BuySignals
    THEN price * LevelScale - conservative_stop_distance(price)
    ELSE None

conservative_calculate_take_profit(price, signal) ==
    IF signal \in BuySignals
    THEN price * LevelScale
           + (conservative_stop_distance(price)
                * CONSERVATIVE_CONFIG.take_profit_ratio) \div 10
    ELSE None

conservative_analyze(market) ==
    IF market.raises THEN AnalysisError
    ELSE LET combined == combine_signals(
                 is_trend_bullish(market.indicators),
                 get_rsi_signal(market.indicators),
                 conservative_is_volatility_acceptable(market.indicators),
                 is_news_positive(market.news))
         IN Decision(combined.signal, combined.confidence,
                     conservative_calculate_position_size(combined.signal),
                     conservative_calculate_stop_loss(market.price,
                                                      combined.signal),
                     conservative_calculate_take_profit(market.price,
                                                        combined.signal))

(***************************************************************************)
(* ModerateMomentumStrategy.                                               *)
(***************************************************************************)
analyze_macd_momentum(indicators) ==
    LET macd_hist == indicators.macd_histogram
        threshold == MODERATE_CONFIG.macd_threshold
        strength == Min((Abs(macd_hist) * 100) \div threshold, 100)
    IN IF macd_hist > threshold /\ indicators.macd > indicators.macd_signal
       THEN IF macd_hist > 0
            THEN [signal |-> "bullish_strong",
                  strength |-> Min((strength * 12) \div 10, 100)]
            ELSE [signal |-> "bullish", strength |-> strength]
       ELSE IF /\ macd_hist < -threshold
               /\ indicators.macd < indicators.macd_signal
       THEN IF macd_hist < 0
            THEN [signal |-> "bearish_strong",
                  strength |-> Min((strength * 12) \div 10, 100)]
            ELSE [signal |-> "bearish", strength |-> strength]
       ELSE [signal |-> "neutral", strength |-> 30]

analyze_bollinger_bands(indicators) ==
    LET bb_position == indicators.bb_position
        oversold == MODERATE_CONFIG.bb_oversold_threshold
        breakout == MODERATE_CONFIG.bb_breakout_threshold
    IN IF bb_position <= oversold
       THEN [signal |-> "oversold",
             strength |-> Min((oversold - bb_position) * 5, 100)]
       ELSE IF bb_position >= breakout
       THEN IF bb_position >= 95
            THEN [signal |-> "breakout", strength |-> 80]
            ELSE [signal |-> "overbought",
                  strength |-> Min((bb_position - breakout) * 5, 100)]
       ELSE IF bb_position < 50
       THEN [signal |-> "below_middle", strength |-> 40]
       ELSE [signal |-> "above_middle", strength |-> 40]

check_volume_confirmation(indicators) ==
    IF indicators.volume_ratio >= MODERATE_CONFIG.volume_spike_threshold
    THEN TRUE
    ELSE indicators.volume_ratio >= MODERATE_CONFIG.min_volume_ratio

moderate_is_volatility_acceptable(indicators) ==
    /\ MODERATE_CONFIG.min_atr_percentage <= indicators.atr_percentage
    /\ indicators.atr_percentage <= MODERATE_CONFIG.max_atr_percentage

is_bullish_trend(indicators) ==
    /\ indicators.ma20 > indicators.ma50
    /\ indicators.ma50 > indicators.ma200
    /\ indicators.macd_histogram > 0

is_bearish_trend(indicators) ==
    /\ indicators.ma20 < indicators.ma50
    /\ indicators.ma50 < indicators.ma200
    /\ indicators.macd_histogram < 0

get_trend_direction(indicators) ==
    IF is_bullish_trend(indicators) THEN "bullish"
    ELSE IF is_bearish_trend(indicators) THEN "bearish"
    ELSE "neutral"

check_news_sentiment(news) ==
    IF ~news.given THEN TRUE
    ELSE IF news.is_critical THEN FALSE
    ELSE news.sentiment_score >= MODERATE_CONFIG.min_news_sentiment

\* the branch of _combine_momentum_signals taken, with its confidence
\* variant that tests the STRONG_BUY branch before the BUY branch
momentum_branch_StrongFirst(macd, bb, volume_confirmed, volatility_ok, trend_direction, news_ok) ==
    IF /\ macd.signal = "bullish_strong" /\ bb.signal = "oversold"
       /\ volume_confirmed /\ volatility_ok
       /\ trend_direction = "bullish" /\ news_ok
    THEN [signal |-> "STRONG_BUY",
          confidence |-> Min(85 + (macd.strength * 15) \div 100, 95)]
    ELSE IF /\ macd.signal \in {"bullish", "bullish_strong"}
            /\ bb.signal \in {"oversold", "below_middle"}
            /\ volatility_ok /\ news_ok
    THEN [signal |-> "BUY",
          confidence |->
              50 + (macd.strength * 30) \div 100 + (bb.strength * 20) \div 100
                 + (IF volume_confirmed THEN 10 ELSE 0)
                 + (IF trend_direction = "bullish" THEN 15 ELSE 0)
                 + (IF macd.signal = "bullish_strong" THEN 5 ELSE 0)]
    ELSE IF /\ macd.signal \in {"bearish", "bearish_strong"}
            /\ bb.signal \in {"overbought", "above_middle"}
            /\ volatility_ok
    THEN [signal |-> "SELL",
          confidence |->
              50 + (macd.strength * 25) \div 100 + (bb.strength * 20) \div 100
                 + (IF trend_direction = "bearish" THEN 10 ELSE 0)
                 + (IF ~news_ok THEN 10 ELSE 0)]
    ELSE IF /\ bb.signal = "breakout"
            /\ macd.signal \in {"bullish", "bullish_strong"}
            /\ volume_confirmed
    THEN [signal |-> "BUY", confidence |-> 75]
    ELSE [signal |-> "HOLD", confidence |-> 30]

momentum_branch(macd, bb, volume_confirmed, volatility_ok, trend_direction, news_ok) ==
    IF /\ macd.signal \in {"bullish", "bullish_strong"}
       /\ bb.signal \in {"oversold", "below_middle"}
       /\ volatility_ok /\ news_ok
    THEN [signal |-> "BUY",
          confidence |->
              50 + (macd.strength * 30) \div 100 + (bb.strength * 20) \div 100
                 + (IF volume_confirmed THEN 10 ELSE 0)
                 + (IF trend_direction = "bullish" THEN 15 ELSE 0)
                 + (IF macd.signal = "bullish_strong" THEN 5 ELSE 0)]
    ELSE IF /\ macd.signal = "bullish_strong" /\ bb.signal = "oversold"
            /\ volume_confirmed /\ volatility_ok
            /\ trend_direction = "bullish" /\ news_ok
    THEN [signal |-> "STRONG_BUY",
          confidence |-> Min(85 + (macd.strength * 15) \div 100, 95)]
    ELSE IF /\ macd.signal \in {"bearish", "bearish_strong"}
            /\ bb.signal \in {"overbought", "above_middle"}
            /\ volatility_ok
    THEN [signal |-> "SELL",
          confidence |->
              50 + (macd.strength * 25) \div 100 + (bb.strength * 20) \div 100
                 + (IF trend_direction = "bearish" THEN 10 ELSE 0)
                 + (IF ~news_ok THEN 10 ELSE 0)]
    ELSE IF /\ bb.signal = "breakout"
            /\ macd.signal \in {"bullish", "bullish_strong"}
            /\ volume_confirmed
    THEN [signal |-> "BUY", confidence |-> 75]
    ELSE [signal |-> "HOLD", confidence |-> 30]

combine_momentum_signals(macd, bb, volume_confirmed, volatility_ok, trend_direction, news_ok) ==
    LET branch == momentum_branch(macd, bb, volume_confirmed, volatility_ok,
                                  trend_direction, news_ok)
        confidence == Max(0, Min(branch.confidence, 100))
    IN [signal |->
            IF /\ branch.signal \in BuySignals
               /\ confidence < MODERATE_CONFIG.min_confidence_buy
            THEN "HOLD"
            ELSE IF /\ branch.signal = "SELL"
                    /\ confidence < MODERATE_CONFIG.min_confidence_sell
            THEN "HOLD"
            ELSE branch.signal,
        confidence |-> confidence]

calculate_adaptive_position_size(signal, confidence, atr_percentage) ==
    IF signal \notin BuySignals THEN 0
    ELSE LET lowest == MODERATE_CONFIG.min_position_size
             highest == MODERATE_CONFIG.max_position_size
             from_confidence == lowest + ((highest - lowest) * confidence) \div 100
             volatility_factor == IF atr_percentage > 30 THEN 70
                                  ELSE IF atr_percentage > 20 THEN 85
                                  ELSE 100
             base_size == IF signal = "STRONG_BUY"
                          THEN (from_confidence * 12) \div 10
                          ELSE from_confidence
             adjusted_size == (base_size * volatility_factor) \div 100
         IN Max(lowest, Min(adjusted_size, highest))

calculate_dynamic_stop_loss(price, signal, atr_percentage) ==
    IF signal \notin BuySignals THEN None
    ELSE LET atr_estimate == (price * LevelScale * atr_percentage) \div 1000
             distance == (atr_estimate
                            * MODERATE_CONFIG.stop_loss_atr_multiplier) \div 10
             stop_distance == IF atr_percentage > 30
                              THEN (distance * 8) \div 10
                              ELSE distance
         IN price * LevelScale - stop_distance

\* "not stop_loss" holds for None and for 0.0
moderate_calculate_take_profit(price, stop_loss, signal) ==
    IF signal \notin BuySignals \/ stop_loss = None \/ stop_loss = 0
    THEN None
    ELSE LET risk_distance == price * LevelScale - stop_loss
             reward_distance ==
                 (risk_distance * MODERATE_CONFIG.take_profit_ratio) \div 10
         IN price * LevelScale + reward_distance

moderate_analyze(market) ==
    IF market.raises THEN AnalysisError
    ELSE LET indicators == market.indicators
             combined == combine_momentum_signals(
                 analyze_macd_momentum(indicators),
                 analyze_bollinger_bands(indicators),
                 check_volume_confirmation(indicators),
                 moderate_is_volatility_acceptable(indicators),
                 get_trend_direction(indicators),
                 check_news_sentiment(market.news))
             stop_loss == calculate_dynamic_stop_loss(
                 market.price, combined.signal, indicators.atr_percentage)
         IN Decision(combined.signal, combined.confidence,
                     calculate_adaptive_position_size(
                         combined.signal, combined.confidence,
                         indicators.atr_percentage),
                     stop_loss,
                     moderate_calculate_take_profit(market.price, stop_loss,
                                                    combined.signal))

\* strategy.analyze of the strategy registered under the name
analyze(strategy_name, market) ==
    IF strategy_name = "moderate" THEN moderate_analyze(market)
    ELSE conservative_analyze(market)

\* no call of analyze has returned yet
NotAnalyzed == [strategy |-> "", decision |-> AnalysisError]

\* one call of analyze on the arguments held in inputs
Analyze(strategy_name) ==
    /\ analyzed.strategy = ""
    /\ analyzed' = [strategy |-> strategy_name,
                    decision |-> analyze(strategy_name, inputs)]
    /\ UNCHANGED <<inputs, rerun>>
    /\ UNCHANGED <<simVars, btVars, baseVars, regVars, sweep>>

(***************************************************************************)
(* BaseStrategy: the state every strategy object carries (its config, its  *)
(* own position ledger and its metrics) and the operations on it.  Prices  *)
(* and levels are whole numbers here and None is a value of its own,       *)
(* because update_position tells a level of 0.0 from a set one only by its *)
(* truth value.                                                            *)
(***************************************************************************)
\* the config a strategy is constructed with: enabled, max_positions and
\* min_confidence, the last in percent
Configs ==
    [enabled : BOOLEAN, max_positions : {1, 2},
     min_confidence : {DefaultMinConfidence, ModerateMinConfidence}]

\* the config of the registered strategies as far as BaseStrategy reads it
DefaultConfig ==
    [enabled |-> TRUE, max_positions |-> 5,
     min_confidence |-> DefaultMinConfidence]

\* StrategyPosition objects add_position can be asked to store
StrategyPositions ==
    { [entry_price |-> 2, quantity |-> 1, stop_loss |-> 1, take_profit |-> 3],
      [entry_price |-> 2, quantity |-> 1, stop_loss |-> None,
       take_profit |-> None],
      [entry_price |-> 2, quantity |-> 1, stop_loss |-> 0,
       take_profit |-> None],
      [entry_price |-> 2, quantity |-> 0, stop_loss |-> 1,
       take_profit |-> 3] }

\* the symbol is not a key of self.positions
NoPosition ==
    [entry_price |-> 0, quantity |-> 0, stop_loss |-> None,
     take_profit |-> None, held |-> FALSE]

StoredPosition(p) ==
    [entry_price |-> p.entry_price, quantity |-> p.quantity,
     stop_loss |-> p.stop_loss, take_profit |-> p.take_profit, held |-> TRUE]

\* StrategyMetrics after construction
NewMetrics ==
    [total_trades |-> 0, winning_trades |-> 0, total_return |-> 0,
     duration_total |-> 0]

\* prices update_position is called with
CurrentPrices == {0, 1, 2, 3}

\* decisions validate_signal is called with: confidence in percent,
\* position_size in units of 1/SizeScale
SignalDecisions ==
    { Decision(s, c, z, None, None) :
        s \in {"BUY", "STRONG_BUY", "SELL"},
        c \in {59, 60, 65},
        z \in {0, 1, SizeScale, SizeScale + 1} }

\* what the last call on the strategy returned: outcome is "None", "True",
\* "False", "decision", "position" or "raised"; decision and position hold
\* the returned object (decision also the argument of validate_signal),
\* price the current_price argument of update_position
Result(op, symbol, price, outcome, decision, position) ==
    [op |-> op, symbol |-> symbol, price |-> price, outcome |-> outcome,
     decision |-> decision, position |-> position]

NothingReturned == Result("", "", 0, "None", AnalysisError, NoPosition)

len_positions(ledger) == Cardinality({s \in Symbols : ledger[s].held})

\* variant that applies the position limit to every signal
base_validate_signal_CapOnAnySignal(cfg, ledger, decision) ==
    IF ~cfg.enabled THEN FALSE
    ELSE IF len_positions(ledger) >= cfg.max_positions THEN FALSE
    ELSE IF decision.confidence < cfg.min_confidence THEN FALSE
    ELSE IF decision.position_size > SizeScale \/ decision.position_size <= 0
    THEN FALSE
    ELSE TRUE

\* BaseStrategy.validate_signal of a strategy with this config and ledger
base_validate_signal(cfg, ledger, decision) ==
    IF ~cfg.enabled THEN FALSE
    ELSE IF /\ decision.signal \in BuySignals
            /\ len_positions(ledger) >= cfg.max_positions THEN FALSE
    ELSE IF decision.confidence < cfg.min_confidence THEN FALSE
    ELSE IF decision.position_size > SizeScale \/ decision.position_size <= 0
    THEN FALSE
    ELSE TRUE

\* StrategyPosition.current_value
strategy_current_value(p) == p.quantity * p.entry_price

\* variant with the position size of a decision that is not a BUY
ExitDecision_ZeroSize == Decision("SELL", 100, 0, None, None)

\* the decision update_position returns for a crossed level
ExitDecision == Decision("SELL", 100, SizeScale, None, None)

\* a level that is set and not 0.0 ("if position.stop_loss and ...")
Truthy(level) == level /= None /\ level /= 0

\* BaseStrategy.update_position: "None", the level that triggered the SELL,
\* or "raised" for the ZeroDivisionError of pnl / position.current_value
update_position(ledger, symbol, current_price) ==
    LET position == ledger[symbol]
    IN IF ~position.held THEN "None"
       ELSE IF strategy_current_value(position) = 0 THEN "raised"
       ELSE IF /\ Truthy(position.stop_loss)
               /\ current_price <= position.stop_loss
       THEN "stop_loss"
       ELSE IF /\ Truthy(position.take_profit)
               /\ current_price >= position.take_profit
       THEN "take_profit"
       ELSE "None"

ValidateSignal(decision, symbol) ==
    /\ returned' = Result("validate_signal", symbol, 0,
                            IF base_validate_signal(config,
                                   strategy_positions, decision)
                            THEN "True" ELSE "False",
                            decision, NoPosition)
    /\ UNCHANGED <<config, strategy_positions, metrics>>
    /\ UNCHANGED <<simVars, btVars, stratVars, regVars, sweep>>

UpdatePosition(symbol, current_price) ==
    LET outcome == update_position(strategy_positions, symbol, current_price)
    IN /\ returned' =
             Result("update_position", symbol, current_price,
                      IF outcome \in {"stop_loss", "take_profit"}
                      THEN "decision" ELSE outcome,
                      IF outcome \in {"stop_loss", "take_profit"}
                      THEN ExitDecision ELSE AnalysisError,
                      NoPosition)
       /\ UNCHANGED <<config, strategy_positions, metrics>>
       /\ UNCHANGED <<simVars, btVars, stratVars, regVars, sweep>>

AddPosition(symbol, p) ==
    /\ strategy_positions' =
           [strategy_positions EXCEPT ![symbol] = StoredPosition(p)]
    /\ returned' = Result("add_position", symbol, 0, "None", AnalysisError,
                            NoPosition)
    /\ UNCHANGED <<config, metrics>>
    /\ UNCHANGED <<simVars, btVars, stratVars, regVars, sweep>>

ClosePosition(symbol) ==
    /\ IF strategy_positions[symbol].held
       THEN /\ strategy_positions' =
                   [strategy_positions EXCEPT ![symbol] = NoPosition]
            /\ returned' = Result("close_position", symbol, 0, "position",
                                    AnalysisError,
                                    strategy_positions[symbol])
       ELSE /\ returned' = Result("close_position", symbol, 0, "None",
                                    AnalysisError, NoPosition)
            /\ UNCHANGED strategy_positions
    /\ UNCHANGED <<config, metrics>>
    /\ UNCHANGED <<simVars, btVars, stratVars, regVars, sweep>>

\* update_metrics; win_rate is winning_trades / total_trades and
\* avg_trade_duration is duration_total / total_trades
UpdateMetrics(trade_return, trade_duration) ==
    /\ metrics.total_trades < MaxTrades
    /\ metrics' =
           [total_trades |-> metrics.total_trades + 1,
            winning_trades |-> metrics.winning_trades
                                 + (IF trade_return > 0 THEN 1 ELSE 0),
            total_return |-> metrics.total_return + trade_return,
            duration_total |-> metrics.duration_total + trade_duration]
    /\ returned' = Result("update_metrics", "", 0, "None", AnalysisError,
                            NoPosition)
    /\ UNCHANGED <<config, strategy_positions>>
    /\ UNCHANGED <<simVars, btVars, stratVars, regVars, sweep>>

\* a strategy after construction that nobody has called
BaseIdle ==
    /\ config = DefaultConfig
    /\ strategy_positions = [s \in Symbols |-> NoPosition]
    /\ metrics = NewMetrics
    /\ returned = NothingReturned

(***************************************************************************)
(* StrategyRegistry.  Its two dictionaries belong to the class, so there   *)
(* is one registry per process; register also writes three attributes on   *)
(* the strategy class it is given.  A strategy object is known by its      *)
(* place in the list of the objects constructed so far.                    *)
(***************************************************************************)
\* the names strategies are registered under
RegistryNames == {"conservative_trend", "moderate_momentum"}

\* a name nobody registers
UnknownName == "unknown"

\* the subclasses of BaseStrategy; the constructor of the last one raises
StrategyClasses ==
    {"ConservativeTrendStrategy", "ModerateMomentumStrategy",
     "BrokenStrategy"}

\* a class that does not extend BaseStrategy
NotAStrategy == "object"

NoClass == ""

\* a strategy object as BaseStrategy.__init__ leaves it
NewObject ==
    [positions |-> [s \in Symbols |-> NoPosition], metrics |-> NewMetrics]

\* strategy_class() raises
ConstructorRaises(class) == class = "BrokenStrategy"

\* self.name of an object of the class: CONSERVATIVE_PARAMS['name'] and
\* MODERATE_PARAMS['name']
strategy_name_of(class) ==
    IF class = "ConservativeTrendStrategy" THEN "Conservative Trend Following"
    ELSE IF class = "ModerateMomentumStrategy"
    THEN "Moderate Momentum Strategy"
    ELSE ""

\* get_parameters()['name'] of an object of the class
get_parameters_name(class) == strategy_name_of(class)

\* description and category of a register call
Meta(description, category) ==
    [description |-> description, category |-> category]

ConservativeMeta ==
    Meta("Trend-following strategy with conservative risk management",
         "conservative")

ModerateMeta ==
    Meta("MACD + Bollinger Band momentum strategy with adaptive risk management",
         "moderate")

Metas == {ConservativeMeta, ModerateMeta}

Categories == {"conservative", "moderate"}

\* what getattr reads from a class register has never been given
NoClassMeta ==
    [name |-> "", description |-> "No description", category |-> "general"]

\* what the last call on the registry returned: outcome is "None",
\* "instance", "list", "count" or "raised"; instance is the returned object,
\* entries the returned list
RegistryResult(op, name, outcome, instance, entries) ==
    [op |-> op, name |-> name, outcome |-> outcome, instance |-> instance,
     entries |-> entries]

is_registered(name) ==
    name \in RegistryNames /\ reg_strategies[name] /= NoClass

is_cached(name) == name \in RegistryNames /\ reg_instances[name] /= 0

\* the body of register for a subclass of BaseStrategy
register(strategies, meta, name, class, m) ==
    [strategies |-> [strategies EXCEPT ![name] = class],
     meta |-> [meta EXCEPT ![class] =
                   [name |-> name, description |-> m.description,
                    category |-> m.category]]]

Register(name, class, m) ==
    /\ IF class \notin StrategyClasses
       THEN /\ reg_returned' = RegistryResult("register", name, "raised", 0, {})
            /\ UNCHANGED <<reg_strategies, class_meta>>
       ELSE LET r == register(reg_strategies, class_meta, name, class, m)
            IN /\ reg_strategies' = r.strategies
               /\ class_meta' = r.meta
               /\ reg_returned' =
                      RegistryResult("register", name, "None", 0, {})
    /\ UNCHANGED <<reg_instances, constructed, objects>>
    /\ UNCHANGED <<simVars, btVars, stratVars, baseVars, sweep>>

\* variant of create that caches the name before the constructor has run
create_CachesFirst(op, name) ==
    IF ~is_registered(name)
    THEN /\ reg_returned' = RegistryResult(op, name, "None", 0, {})
         /\ UNCHANGED <<reg_instances, constructed, objects>>
    ELSE IF ConstructorRaises(reg_strategies[name])
    THEN /\ reg_returned' = RegistryResult(op, name, "None", 0, {})
         /\ reg_instances' =
                [reg_instances EXCEPT ![name] = Len(constructed) + 1]
         /\ UNCHANGED <<constructed, objects>>
    ELSE /\ Len(constructed) < MaxInstances
         /\ constructed' = Append(constructed, reg_strategies[name])
         /\ objects' = Append(objects, NewObject)
         /\ reg_instances' =
                [reg_instances EXCEPT ![name] = Len(constructed) + 1]
         /\ reg_returned' = RegistryResult(op, name, "instance",
                                           Len(constructed) + 1, {})

\* the body of create, called as op
create(op, name) ==
    IF ~is_registered(name)
    THEN /\ reg_returned' = RegistryResult(op, name, "None", 0, {})
         /\ UNCHANGED <<reg_instances, constructed, objects>>
    ELSE IF ConstructorRaises(reg_strategies[name])
    THEN /\ reg_returned' = RegistryResult(op, name, "None", 0, {})
         /\ UNCHANGED <<reg_instances, constructed, objects>>
    ELSE /\ Len(constructed) < MaxInstances
         /\ constructed' = Append(constructed, reg_strategies[name])
         /\ objects' = Append(objects, NewObject)
         /\ reg_instances' =
                [reg_instances EXCEPT ![name] = Len(constructed) + 1]
         /\ reg_returned' = RegistryResult(op, name, "instance",
                                           Len(constructed) + 1, {})

Create(name) ==
    /\ create("create", name)
    /\ UNCHANGED <<reg_strategies, class_meta>>
    /\ UNCHANGED <<simVars, btVars, stratVars, baseVars, sweep>>

\* variant of get_instance that constructs a new object on every call
GetInstance_AlwaysCreates(name) ==
    /\ create("get_instance", name)
    /\ UNCHANGED <<reg_strategies, class_meta>>
    /\ UNCHANGED <<simVars, btVars, stratVars, baseVars, sweep>>

GetInstance(name) ==
    /\ IF is_cached(name)
       THEN /\ reg_returned' = RegistryResult("get_instance", name,
                                   "instance", reg_instances[name], {})
            /\ UNCHANGED <<reg_instances, constructed, objects>>
       ELSE create("get_instance", name)
    /\ UNCHANGED <<reg_strategies, class_meta>>
    /\ UNCHANGED <<simVars, btVars, stratVars, baseVars, sweep>>

\* one entry of list_strategies; the keys class_name and module follow from
\* the class and 'available' is always True
ListEntry(name, description, category) ==
    [name |-> name, description |-> description, category |-> category]

\* list_strategies as the set of its entries
list_strategies(strategies, meta) ==
    { ListEntry(name, meta[strategies[name]].description,
                meta[strategies[name]].category) :
        name \in {n \in RegistryNames : strategies[n] /= NoClass} }

\* get_strategies_by_category as the set of its names
get_strategies_by_category(strategies, meta, category) ==
    { name \in RegistryNames :
        /\ strategies[name] /= NoClass
        /\ meta[strategies[name]].category = category }

NameEntries(names) == { ListEntry(name, "", "") : name \in names }

ListStrategies ==
    /\ reg_returned' =
           RegistryResult("list_strategies", "", "list", 0,
                          list_strategies(reg_strategies, class_meta))
    /\ UNCHANGED <<reg_strategies, reg_instances, class_meta, constructed,
                   objects>>
    /\ UNCHANGED <<simVars, btVars, stratVars, baseVars, sweep>>

GetStrategiesByCategory(category) ==
    /\ reg_returned' =
           RegistryResult("get_strategies_by_category", category, "list", 0,
               NameEntries(get_strategies_by_category(reg_strategies,
                                                      class_meta, category)))
    /\ UNCHANGED <<reg_strategies, reg_instances, class_meta, constructed,
                   objects>>
    /\ UNCHANGED <<simVars, btVars, stratVars, baseVars, sweep>>

\* clear empties the two dictionaries; the attributes register wrote on the
\* classes stay
Clear ==
    /\ reg_strategies' = [n \in RegistryNames |-> NoClass]
    /\ reg_instances' = [n \in RegistryNames |-> 0]
    /\ reg_returned' = RegistryResult("clear", "", "None", 0, {})
    /\ UNCHANGED <<class_meta, constructed, objects>>
    /\ UNCHANGED <<simVars, btVars, stratVars, baseVars, sweep>>

\* the two register calls of auto_discover, both imports succeeding
auto_discover(strategies, meta) ==
    LET first == register(strategies, meta, "conservative_trend",
                          "ConservativeTrendStrategy", ConservativeMeta)
    IN register(first.strategies, first.meta, "moderate_momentum",
                "ModerateMomentumStrategy", ModerateMeta)

AutoDiscover ==
    LET r == auto_discover(reg_strategies, class_meta)
    IN /\ reg_strategies' = r.strategies
       /\ class_meta' = r.meta
       /\ reg_returned' = RegistryResult("auto_discover", "", "count", 2, {})
       /\ UNCHANGED <<reg_instances, constructed, objects>>
       /\ UNCHANGED <<simVars, btVars, stratVars, baseVars, sweep>>

\* the position a caller stores on a strategy object
CallerPosition ==
    [entry_price |-> 1, quantity |-> 1, stop_loss |-> None,
     take_profit |-> None]

\* a caller of get_instance(name) stores a position on the cached object
InstanceAddPosition(name, symbol) ==
    /\ is_cached(name)
    /\ objects' = [objects EXCEPT
                      ![reg_instances[name]].positions[symbol] =
                          StoredPosition(CallerPosition)]
    /\ UNCHANGED <<reg_strategies, reg_instances, class_meta, constructed,
                   reg_returned>>
    /\ UNCHANGED <<simVars, btVars, stratVars, baseVars, sweep>>

\* a caller of get_instance(name) reports a winning trade to the cached
\* object
InstanceUpdateMetrics(name) ==
    /\ is_cached(name)
    /\ objects[reg_instances[name]].metrics.total_trades < MaxTrades
    /\ objects' = [objects EXCEPT
                      ![reg_instances[name]].metrics =
                          [total_trades |-> @.total_trades + 1,
                           winning_trades |-> @.winning_trades + 1,
                           total_return |-> @.total_return + 1,
                           duration_total |-> @.duration_total + 1]]
    /\ UNCHANGED <<reg_strategies, reg_instances, class_meta, constructed,
                   reg_returned>>
    /\ UNCHANGED <<simVars, btVars, stratVars, baseVars, sweep>>

\* the registered names, and the orders a dictionary may hold them in
Registered == {n \in RegistryNames : reg_strategies[n] /= NoClass}

Orders(S) ==
    {order \in [1..Cardinality(S) -> S] :
        \A i, j \in 1..Cardinality(S) : i /= j => order[i] /= order[j]}

\* variant of the loop body that asks get_instance for the object
validate_one_FromCache(st, name) ==
    IF st.instances[name] /= 0
    THEN [st EXCEPT !.valid = Append(@, name)]
    ELSE IF ConstructorRaises(reg_strategies[name])
    THEN [st EXCEPT !.invalid = Append(@, name)]
    ELSE [st EXCEPT !.constructed = Append(@, reg_strategies[name]),
                    !.objects = Append(@, NewObject),
                    !.instances[name] = Len(st.constructed) + 1,
                    !.valid = Append(@, name)]

\* one pass of the loop of validate_registry: create(name), then the name
\* goes to valid or, the constructor having raised, to invalid; every
\* strategy class has analyze and get_parameters
validate_one(st, name) ==
    IF ConstructorRaises(reg_strategies[name])
    THEN [st EXCEPT !.invalid = Append(@, name)]
    ELSE [st EXCEPT !.constructed = Append(@, reg_strategies[name]),
                    !.objects = Append(@, NewObject),
                    !.instances[name] = Len(st.constructed) + 1,
                    !.valid = Append(@, name)]

RECURSIVE validate_loop(_, _)
validate_loop(st, names) ==
    IF names = <<>> THEN st
    ELSE validate_loop(validate_one(st, Head(names)), Tail(names))

\* validate_registry with the names in this order
validate_registry(order) ==
    validate_loop([instances |-> reg_instances, constructed |-> constructed,
                   objects |-> objects, valid |-> <<>>, invalid |-> <<>>],
                  order)

\* the returned dictionary as entries: a name of 'valid', or a name of
\* 'invalid' with its message
ValidationEntries(st) ==
    {ListEntry(st.valid[i], "valid", "") : i \in 1..Len(st.valid)}
        \cup {ListEntry(st.invalid[i], "Cannot create instance", "") :
                 i \in 1..Len(st.invalid)}

ValidateRegistry ==
    /\ \E order \in Orders(Registered) :
           LET st == validate_registry(order)
           IN /\ Len(st.constructed) <= MaxInstances
              /\ reg_instances' = st.instances
              /\ constructed' = st.constructed
              /\ objects' = st.objects
              /\ reg_returned' =
                     RegistryResult("validate_registry", "", "lists", 0,
                                    ValidationEntries(st))
    /\ UNCHANGED <<reg_strategies, class_meta>>
    /\ UNCHANGED <<simVars, btVars, stratVars, baseVars, sweep>>

\* the registry after the import of the strategies package, which runs
\* initialize_registry
RegistryIdle ==
    LET r == auto_discover([n \in RegistryNames |-> NoClass],
                           [c \in StrategyClasses |-> NoClassMeta])
    IN /\ reg_strategies = r.strategies
       /\ class_meta = r.meta
       /\ reg_instances = [n \in RegistryNames |-> 0]
       /\ constructed = <<>>
       /\ objects = <<>>
       /\ reg_returned = RegistryResult("auto_discover", "", "count", 2, {})

(***************************************************************************)
(* SimpleBacktester.run_parameter_sweep.  A parameter value is known by    *)
(* its type and by the text str() gives it; a combination is the list of   *)
(* the values of the parameters, in the order of parameter_ranges.  The    *)
(* strategy class is known by the name its objects carry and by the        *)
(* parameter values its constructor raises on.  The backtester holds only  *)
(* the strategy of the running combination, so every other strategy        *)
(* answers HOLD with confidence 0.                                         *)
(***************************************************************************)
Value(kind, text) == [kind |-> kind, text |-> text]

Range(name, values) == [name |-> name, values |-> values]

\* the parameter_ranges the sweep is called with: no parameter, one
\* parameter with two values, one parameter whose two values print alike,
\* and two parameters
ParameterRanges ==
    { <<>>,
      <<Range("a", <<Value("int", "1"), Value("int", "2")>>)>>,
      <<Range("a", <<Value("int", "1"), Value("str", "1")>>)>>,
      <<Range("a", <<Value("int", "1"), Value("int", "2")>>),
        Range("b", <<Value("int", "1")>>)>> }

\* the strategy classes the sweep is called with
SweepClasses ==
    [name : {"conservative"},
     rejects : {{}, {Value("int", "1")}, {Value("int", "2")},
                {Value("str", "1")}}]

\* the historical data the sweep is called with: a rising series, a series
\* with a price of 0, on which _create_mock_indicators raises, and no data
SweepHistories ==
    { [s \in Symbols |-> IF s = "BTC"
                         THEN <<[timestamp |-> 1, price |-> 1],
                                [timestamp |-> 2, price |-> 2]>>
                         ELSE <<>>],
      [s \in Symbols |-> IF s = "BTC"
                         THEN <<[timestamp |-> 1, price |-> 0]>>
                         ELSE <<>>],
      [s \in Symbols |-> <<>>] }

\* itertools.product(*param_values)
RECURSIVE product(_)
product(ranges) ==
    IF ranges = <<>> THEN << <<>> >>
    ELSE LET rest == product(Tail(ranges))
             values == Head(ranges).values
         IN [i \in 1..(Len(values) * Len(rest)) |->
                <<values[((i - 1) \div Len(rest)) + 1]>>
                    \o rest[((i - 1) % Len(rest)) + 1]]

\* param_key: the parts "k=v" that "_".join puts together
param_key(ranges, combination) ==
    [i \in 1..Len(combination) |->
        [k |-> ranges[i].name, v |-> combination[i].text]]

\* strategy_class(**param_dict) raises
ConstructorRejects(class, combination) ==
    \E i \in 1..Len(combination) : combination[i] \in class.rejects

\* what analyze of a strategy the backtester does not hold amounts to
NotHeld == Decision("HOLD", 0, 0, NoLevel, NoLevel)

\* the decisions of one timestamp when only strategy_name is held
OnlyStrategy(strategy_name, decision) ==
    [s \in Strategies |-> IF s = strategy_name THEN decision ELSE NotHeld]

NoSweep ==
    [pc |-> "idle", class |-> [name |-> "", rejects |-> {}],
     parameter_ranges |-> <<>>, combinations |-> <<>>, k |-> 1,
     historical_data |-> [s \in Symbols |-> <<>>],
     start_date |-> 1, end_date |-> 1, outcomes |-> <<>>,
     results |-> <<>>]

\* results[param_key] = value on the dictionary kept as a list of items
SetItem(items, key, value) ==
    IF \E i \in 1..Len(items) : items[i].key = key
    THEN [i \in 1..Len(items) |->
             IF items[i].key = key THEN [key |-> key, value |-> value]
             ELSE items[i]]
    ELSE Append(items, [key |-> key, value |-> value])

Keys(items) == { items[i].key : i \in 1..Len(items) }

\* lines 455-462: the combinations and the empty result dictionary
SweepStart(class, ranges, h, start, end) ==
    /\ sweep.pc = "idle"
    /\ run.pc = "new"
    /\ ticks = 0
    /\ sweep' = [pc |-> "next", class |-> class, parameter_ranges |-> ranges,
                 combinations |-> product(ranges), k |-> 1,
                 historical_data |-> h, start_date |-> start,
                 end_date |-> end, outcomes |-> <<>>, results |-> <<>>]
    /\ UNCHANGED <<simVars, btVars, stratVars, baseVars, regVars>>

\* variant that leaves the loop when the constructor raises
SweepConstruct_Aborts ==
    /\ sweep.pc = "next"
    /\ sweep.k <= Len(sweep.combinations)
    /\ IF ConstructorRejects(sweep.class, sweep.combinations[sweep.k])
       THEN /\ sweep' = [sweep EXCEPT
                            !.outcomes = Append(@, "construct_raised"),
                            !.pc = "returned"]
            /\ UNCHANGED btVars
       ELSE /\ run_backtest_begin(sweep.historical_data, sweep.start_date,
                                  sweep.end_date)
            /\ sweep' = [sweep EXCEPT !.pc = "running"]
    /\ UNCHANGED <<simVars, stratVars, baseVars, regVars>>

\* lines 464-476: the next combination; its strategy is constructed and,
\* if that does not raise, replaces the strategies and run_backtest begins
SweepConstruct ==
    /\ sweep.pc = "next"
    /\ sweep.k <= Len(sweep.combinations)
    /\ IF ConstructorRejects(sweep.class, sweep.combinations[sweep.k])
       THEN /\ sweep' = [sweep EXCEPT
                            !.outcomes = Append(@, "construct_raised"),
                            !.k = @ + 1]
            /\ UNCHANGED btVars
       ELSE /\ run_backtest_begin(sweep.historical_data, sweep.start_date,
                                  sweep.end_date)
            /\ sweep' = [sweep EXCEPT !.pc = "running"]
    /\ UNCHANGED <<simVars, stratVars, baseVars, regVars>>

\* lines 478-479: run_backtest has returned
SweepCollect ==
    /\ sweep.pc = "running"
    /\ run.pc = "returned"
    /\ IF sweep.class.name \in DOMAIN results
       THEN sweep' = [sweep EXCEPT
                         !.results =
                             SetItem(@, param_key(sweep.parameter_ranges,
                                                  sweep.combinations[sweep.k]),
                                     results[sweep.class.name]),
                         !.outcomes = Append(@, "stored"),
                         !.k = @ + 1, !.pc = "next"]
       ELSE sweep' = [sweep EXCEPT
                         !.outcomes = Append(@, "absent"),
                         !.k = @ + 1, !.pc = "next"]
    /\ UNCHANGED <<simVars, btVars, stratVars, baseVars, regVars>>

\* lines 481-483: run_backtest has raised
SweepExcept ==
    /\ sweep.pc = "running"
    /\ run.pc = "raised"
    /\ sweep' = [sweep EXCEPT
                    !.outcomes = Append(@, "backtest_raised"),
                    !.k = @ + 1, !.pc = "next"]
    /\ UNCHANGED <<simVars, btVars, stratVars, baseVars, regVars>>

\* line 485: return results
SweepReturn ==
    /\ sweep.pc = "next"
    /\ sweep.k > Len(sweep.combinations)
    /\ sweep' = [sweep EXCEPT !.pc = "returned"]
    /\ UNCHANGED <<simVars, btVars, stratVars, baseVars, regVars>>

EngineInit ==
    /\ cash = initial_balance
    /\ current_balance = initial_balance
    /\ peak_balance = initial_balance
    /\ max_drawdown = [n |-> 0, d |-> 1]
    /\ positions = <<>>
    /\ trade_history = <<>>
    /\ balance_history = <<>>
    /\ pc = "idle"
    /\ tick = [symbol |-> "BTC", price |-> 0, strategy |-> 1]
    /\ ticks = 0
    /\ current_capital = initial_capital
    /\ active_trades = <<>>
    /\ completed_trades = <<>>
    /\ equity_history = <<>>
    /\ opened = 0
    /\ run = [pc |-> "new", historical_data |-> [s \in Symbols |-> <<>>],
              start_date |-> 1, end_date |-> 1, sorted_timestamps |-> <<>>,
              i |-> 1, symbol |-> 1]
    /\ results = <<>>
    /\ threads = [t \in Threads |-> NotCalled]
    /\ sweep = NoSweep
    /\ summary = NoSummary

\* the engines after construction; no strategy is analyzing
Init ==
    /\ EngineInit
    /\ inputs = CHOOSE m \in Markets : m.raises
    /\ analyzed = NotAnalyzed
    /\ rerun = NoRerun
    /\ BaseIdle
    /\ RegistryIdle

Next ==
    \/ /\ pc = "idle"
       /\ \E symbol \in Symbols, current_price \in Prices :
              BeginTick(symbol, current_price)
    \/ /\ pc = "strategies"
       /\ \E decision \in Decisions : RunStrategy(decision)
    \/ UpdatePortfolioValue
    \/ ApplyRiskManagement
    \/ /\ run.pc = "new"
       /\ ticks = 0
       /\ \E h \in Histories, r \in DateRanges :
              RunBacktest(h, r.start_date, r.end_date)
    \/ SkipSymbol
    \/ RaiseInProcess
    \/ /\ run.pc = "loop"
       /\ run.symbol <= Len(SymbolOrder)
       /\ HasData
       /\ \E d \in [Strategies -> Decisions] : ProcessSymbol(d)
    \/ RecordEquity
    \/ FinishBacktest

Spec == Init /\ [][Next]_vars

(***************************************************************************)
(* Concurrent callers.  PortfolioSimulator holds no lock, so two callers   *)
(* of process_market_data on one object interleave.  A call is the         *)
(* sequence of its steps: _update_positions; per strategy the decision,    *)
(* where _open_long_position first runs its checks (existing position,     *)
(* position cap, cash) and then, in a later step, writes the position,     *)
(* deducts the cash and appends the BUY record; _update_portfolio_value;   *)
(* _apply_risk_management.  Each step is atomic here, so every behaviour   *)
(* of this specification is an interleaving the threads can produce.       *)
(***************************************************************************)
\* the caller's record once the strategy it ran is done with
NextStrategy(me) ==
    IF me.strategy < Len(StrategyOrder)
    THEN [NotCalled EXCEPT !.pc = "strategies", !.symbol = me.symbol,
                           !.price = me.price, !.strategy = me.strategy + 1]
    ELSE [NotCalled EXCEPT !.pc = "portfolio", !.symbol = me.symbol,
                           !.price = me.price, !.strategy = me.strategy]

\* process_market_data is entered: step 1
Call(t, symbol, current_price) ==
    /\ threads[t].pc = "ready"
    /\ update_positions(symbol, current_price)
    /\ threads' = [threads EXCEPT ![t] =
           [NotCalled EXCEPT !.pc = "strategies", !.symbol = symbol,
                             !.price = current_price]]
    /\ UNCHANGED <<current_balance, peak_balance, max_drawdown,
                   balance_history, pc, tick, ticks>>
    /\ summary' = NoSummary
    /\ UNCHANGED <<btVars, libVars>>

\* step 2, one strategy: _process_trading_decision up to the last check of
\* _open_long_position
Decide(t, decision) ==
    LET me == threads[t]
        strategy_name == StrategyOrder[me.strategy]
        sizePct == EnhancedSize(decision)
    IN /\ me.pc = "strategies"
       /\ IF decision.signal \in BuySignals
          THEN /\ UNCHANGED <<positions, cash, trade_history>>
               /\ IF OpenAccepted(me.symbol, strategy_name, sizePct, me.price)
                  THEN threads' = [threads EXCEPT ![t] =
                           [me EXCEPT !.pc = "commit", !.decision = decision,
                               !.value = position_value(current_balance,
                                                        sizePct)]]
                  ELSE threads' = [threads EXCEPT ![t] = NextStrategy(me)]
          ELSE /\ IF decision.signal = "SELL"
                  THEN close_positions_for_symbol(me.symbol, me.price,
                                                  "Strategy Signal")
                  ELSE UNCHANGED <<positions, cash, trade_history>>
               /\ threads' = [threads EXCEPT ![t] = NextStrategy(me)]
       /\ UNCHANGED <<current_balance, peak_balance, max_drawdown,
                      balance_history, pc, tick, ticks>>
       /\ UNCHANGED <<btVars, libVars, summary>>

\* the rest of _open_long_position.  The key of the position is
\* symbol_strategy_second: written in the second in which the other caller
\* wrote a position of the pair, it replaces that position in the dictionary
Commit(t, same_second) ==
    LET me == threads[t]
        strategy_name == StrategyOrder[me.strategy]
        quantity == me.value \div me.price
        position == [id |-> NextId, symbol |-> me.symbol,
                     strategy_name |-> strategy_name,
                     entry_price |-> me.price, quantity |-> quantity,
                     stop_loss |-> me.decision.stop_loss,
                     take_profit |-> me.decision.take_profit]
    IN /\ me.pc = "commit"
       /\ same_second => get_position(positions, me.symbol, strategy_name)
       /\ positions' =
              IF same_second
              THEN [i \in 1..Len(positions) |->
                       IF /\ positions[i].symbol = me.symbol
                          /\ positions[i].strategy_name = strategy_name
                       THEN position ELSE positions[i]]
              ELSE Append(positions, position)
       /\ cash' = cash - me.value
       /\ trade_history' = Append(trade_history,
              [action |-> "BUY", symbol |-> me.symbol,
               strategy |-> strategy_name, price |-> me.price,
               quantity |-> quantity, value |-> me.value,
               pnl |-> 0, reason |-> "", id |-> NextId])
       /\ threads' = [threads EXCEPT ![t] = NextStrategy(me)]
       /\ UNCHANGED <<current_balance, peak_balance, max_drawdown,
                      balance_history, pc, tick, ticks>>
       /\ UNCHANGED <<btVars, libVars, summary>>

\* step 3
UpdateValue(t) ==
    /\ threads[t].pc = "portfolio"
    /\ update_portfolio_value
    /\ threads' = [threads EXCEPT ![t].pc = "risk"]
    /\ UNCHANGED <<cash, positions, trade_history, pc, tick, ticks>>
    /\ UNCHANGED <<btVars, libVars, summary>>

\* step 4; the call returns
RiskManagement(t) ==
    /\ threads[t].pc = "risk"
    /\ apply_risk_management
    /\ threads' = [threads EXCEPT ![t].pc = "done"]
    /\ UNCHANGED <<current_balance, peak_balance, max_drawdown,
                   balance_history, pc, tick, ticks>>
    /\ UNCHANGED <<btVars, libVars, summary>>

ConcNext ==
    \/ \E t \in Threads, symbol \in Symbols, current_price \in Prices :
           Call(t, symbol, current_price)
    \/ \E t \in Threads, decision \in Decisions : Decide(t, decision)
    \/ \E t \in Threads, same_second \in BOOLEAN : Commit(t, same_second)
    \/ \E t \in Threads : UpdateValue(t)
    \/ \E t \in Threads : RiskManagement(t)

ConcSpec == Init /\ [][ConcNext]_vars

(***************************************************************************)
(* The simulator with its two summaries.  A summary is asked for between   *)
(* two calls of process_market_data.                                       *)
(***************************************************************************)
SummaryNext ==
    \/ \E symbol \in Symbols, current_price \in Prices :
           BeginTick(symbol, current_price)
    \/ AnalyzeRaises
    \/ \E decision \in Decisions : RunStrategy(decision)
    \/ UpdatePortfolioValue
    \/ ApplyRiskManagement
    \/ GetPerformanceSummary
    \/ GetCurrentStatus

SummarySpec == Init /\ [][SummaryNext]_vars

(***************************************************************************)
(* The simulator with one more tick after the ticks that drove the         *)
(* drawdown above the ceiling.                                             *)
(***************************************************************************)
LatchNext ==
    \/ \E symbol \in Symbols, current_price \in Prices :
           BeginTick(symbol, current_price)
    \/ \E symbol \in Symbols, current_price \in Prices :
           TickAfterLatch(symbol, current_price)
    \/ AnalyzeRaises
    \/ \E decision \in Decisions : RunStrategy(decision)
    \/ UpdatePortfolioValue
    \/ ApplyRiskManagement

LatchSpec == Init /\ [][LatchNext]_vars

(***************************************************************************)
(* The backtester alone: the runs of run_backtest.                         *)
(***************************************************************************)
BacktestNext ==
    \/ \E h \in Histories, r \in DateRanges :
           RunBacktest(h, r.start_date, r.end_date)
    \/ SkipSymbol
    \/ RaiseInProcess
    \/ /\ run.pc = "loop"
       /\ run.symbol <= Len(SymbolOrder)
       /\ HasData
       /\ \E d \in [Strategies -> Decisions] : ProcessSymbol(d)
    \/ RecordEquity
    \/ FinishBacktest

BacktestSpec == Init /\ [][BacktestNext]_vars

(***************************************************************************)
(* One backtester that a caller runs twice.  The strategies answer as      *)
(* functions of their arguments, so a second run on the data and the date  *)
(* range of the first gets the answers of the first.                       *)
(***************************************************************************)
\* the data the caller has: a rising price, a price of 0 on which
\* _create_mock_indicators raises after a first timestamp, two symbols,
\* and a falling price
RerunHistories ==
    { [s \in Symbols |-> IF s = "BTC"
                         THEN <<[timestamp |-> 1, price |-> 1],
                                [timestamp |-> 2, price |-> 2]>>
                         ELSE <<>>],
      [s \in Symbols |-> IF s = "BTC"
                         THEN <<[timestamp |-> 1, price |-> 1],
                                [timestamp |-> 2, price |-> 0]>>
                         ELSE <<>>],
      [s \in Symbols |-> <<[timestamp |-> 1, price |-> 1]>>],
      [s \in Symbols |-> IF s = "ETH"
                         THEN <<[timestamp |-> 2, price |-> 2],
                                [timestamp |-> 3, price |-> 1]>>
                         ELSE <<>>] }

\* what the strategies answer
RerunDecisions ==
    { Decision("BUY", 70, 50, 1, 1),
      Decision("HOLD", 50, 0, NoLevel, NoLevel),
      Decision("SELL", 60, 0, NoLevel, NoLevel) }

RerunNext ==
    \/ \E h \in RerunHistories, r \in DateRanges :
           RunBacktest(h, r.start_date, r.end_date)
    \/ \E h \in RerunHistories, r \in DateRanges :
           RunBacktestAgain(h, r.start_date, r.end_date)
    \/ SkipSymbol
    \/ RaiseInProcess
    \/ \E d \in [Strategies -> RerunDecisions] : FirstProcessSymbol(d)
    \/ ReplayProcessSymbol
    \/ /\ rerun.mode = "other"
       /\ run.pc = "loop"
       /\ run.symbol <= Len(SymbolOrder)
       /\ HasData
       /\ \E d \in [Strategies -> RerunDecisions] : ProcessSymbol(d)
    \/ RecordEquity
    \/ FinishBacktest

RerunSpec == Init /\ [][RerunNext]_vars

(***************************************************************************)
(* The strategies alone: analyze is called once, by either strategy, on    *)
(* any of the inputs.                                                      *)
(***************************************************************************)
StrategyInit ==
    /\ EngineInit
    /\ inputs \in Markets
    /\ analyzed = NotAnalyzed
    /\ rerun = NoRerun
    /\ BaseIdle
    /\ RegistryIdle

StrategyNext == \E strategy_name \in Strategies : Analyze(strategy_name)

StrategySpec == StrategyInit /\ [][StrategyNext]_vars

(***************************************************************************)
(* One strategy object alone: any caller may store and close positions,    *)
(* ask for the exit check, validate a decision and report a closed trade,  *)
(* in any order.                                                           *)
(***************************************************************************)
StrategyIdle ==
    /\ inputs = CHOOSE m \in Markets : m.raises
    /\ analyzed = NotAnalyzed
    /\ rerun = NoRerun

BaseInit ==
    /\ EngineInit
    /\ StrategyIdle
    /\ config \in Configs
    /\ strategy_positions = [s \in Symbols |-> NoPosition]
    /\ metrics = NewMetrics
    /\ returned = NothingReturned
    /\ RegistryIdle

BaseNext ==
    \/ \E decision \in SignalDecisions, symbol \in Symbols :
           ValidateSignal(decision, symbol)
    \/ \E symbol \in Symbols, current_price \in CurrentPrices :
           UpdatePosition(symbol, current_price)
    \/ \E symbol \in Symbols, p \in StrategyPositions :
           AddPosition(symbol, p)
    \/ \E symbol \in Symbols : ClosePosition(symbol)
    \/ \E trade_return \in {0 - 1, 1}, trade_duration \in {1} :
           UpdateMetrics(trade_return, trade_duration)

BaseSpec == BaseInit /\ [][BaseNext]_vars

(***************************************************************************)
(* The two engines with a strategy object whose config caps its open       *)
(* positions at one or two.                                                *)
(***************************************************************************)
CapInit ==
    /\ EngineInit
    /\ StrategyIdle
    /\ config \in {cfg \in Configs :
                      cfg.enabled /\ cfg.min_confidence = DefaultMinConfidence}
    /\ strategy_positions = [s \in Symbols |-> NoPosition]
    /\ metrics = NewMetrics
    /\ returned = NothingReturned
    /\ RegistryIdle

CapSpec == CapInit /\ [][Next]_vars

(***************************************************************************)
(* The registry alone, from the state the import of the package leaves:    *)
(* any caller may register, create, look up, list and clear in any order.  *)
(***************************************************************************)
RegistryInit ==
    /\ EngineInit
    /\ StrategyIdle
    /\ BaseIdle
    /\ RegistryIdle

\* the classes register is called with; auto_discover registers the
\* moderate strategy
RegisterArguments ==
    {"ConservativeTrendStrategy", "BrokenStrategy", NotAStrategy}

RegistryNext ==
    \/ \E name \in RegistryNames, m \in Metas, class \in RegisterArguments :
           Register(name, class, m)
    \/ \E name \in RegistryNames \cup {UnknownName} : Create(name)
    \/ \E name \in RegistryNames \cup {UnknownName} : GetInstance(name)
    \/ ListStrategies
    \/ \E category \in Categories : GetStrategiesByCategory(category)
    \/ Clear
    \/ AutoDiscover

RegistrySpec == RegistryInit /\ [][RegistryNext]_vars

(***************************************************************************)
(* The registry with callers that use the cached objects: they store       *)
(* positions and report trades on them, create objects, register a class   *)
(* under a registered name and run validate_registry.                      *)
(***************************************************************************)
ValidateNext ==
    \/ \E name \in RegistryNames, class \in RegisterArguments :
           Register(name, class, ConservativeMeta)
    \/ \E name \in RegistryNames \cup {UnknownName} : Create(name)
    \/ \E name \in RegistryNames \cup {UnknownName} : GetInstance(name)
    \/ \E name \in RegistryNames : InstanceAddPosition(name, "BTC")
    \/ \E name \in RegistryNames : InstanceUpdateMetrics(name)
    \/ ValidateRegistry

ValidateSpec == RegistryInit /\ [][ValidateNext]_vars

(***************************************************************************)
(* The parameter sweep: one call of run_parameter_sweep on a new           *)
(* backtester, each of its backtests running through the steps of          *)
(* run_backtest.                                                           *)
(***************************************************************************)
SweepNext ==
    \/ \E class \in SweepClasses, ranges \in ParameterRanges,
          h \in SweepHistories :
           SweepStart(class, ranges, h, 1, 3)
    \/ SweepConstruct
    \/ SkipSymbol
    \/ RaiseInProcess
    \/ /\ run.pc = "loop"
       /\ run.symbol <= Len(SymbolOrder)
       /\ HasData
       /\ \E decision \in Decisions :
              ProcessSymbol(OnlyStrategy(sweep.class.name, decision))
    \/ RecordEquity
    \/ FinishBacktest
    \/ SweepCollect
    \/ SweepExcept
    \/ SweepReturn

SweepSpec == Init /\ [][SweepNext]_vars

(***************************************************************************)
(* Properties.                                                             *)
(***************************************************************************)
SamePair(a, b) == a.symbol = b.symbol /\ a.strategy_name = b.strategy_name

OnePositionPerPair ==
    /\ \A i, j \in 1..Len(positions) :
           i # j => ~SamePair(positions[i], positions[j])
    /\ \A i, j \in 1..Len(active_trades) :
           i # j => ~SamePair(active_trades[i], active_trades[j])

\* no step is the evaluation of a BUY or STRONG_BUY of a strategy whose pair
\* is open, unless it leaves positions, cash and trade_history as they are
BuyForOpenPair ==
    /\ \/ UNCHANGED <<positions, cash, trade_history>>
       \/ \A decision \in Decisions :
              ~( /\ pc = "strategies"
                 /\ decision.signal \in BuySignals
                 /\ get_position(positions, tick.symbol,
                                 StrategyOrder[tick.strategy])
                 /\ RunStrategy(decision) )
    /\ \/ UNCHANGED <<active_trades, current_capital, opened>>
       \/ \A d \in [Strategies -> Decisions] :
              ~( /\ run.pc = "loop"
                 /\ run.symbol <= Len(SymbolOrder)
                 /\ HasTrade(active_trades, SymbolOrder[run.symbol])
                 /\ d[TradeOf(active_trades, SymbolOrder[run.symbol])
                          .strategy_name].signal \in BuySignals
                 /\ completed_trades' = completed_trades
                 /\ ProcessSymbol(d) )

(***************************************************************************)
(* C1: no (symbol, strategy) pair ever has two open positions, neither in  *)
(* the simulator's positions nor in the backtester's active_trades, and a  *)
(* BUY or STRONG_BUY decision for a pair whose position is open (and stays *)
(* open) opens nothing and leaves cash unchanged.                          *)
(***************************************************************************)
C1_OnePositionPerPair == []OnePositionPerPair /\ [][BuyForOpenPair]_vars

\* the second tick has evaluated both strategies on the symbol of a position
\* that the last strategy opened in the first tick and still holds
C1_Witness ==
    /\ pc = "portfolio"
    /\ ticks = 2
    /\ \E i \in 1..Len(positions) :
           /\ positions[i].symbol = tick.symbol
           /\ positions[i].strategy_name = StrategyOrder[Len(StrategyOrder)]
           /\ positions[i].entry_price # tick.price

CashAndCap == cash >= 0 /\ Len(positions) <= max_positions

SellRecords == SelectSeq(trade_history, LAMBDA r : r.action = "SELL")

BuyRecords == SelectSeq(trade_history, LAMBDA r : r.action = "BUY")

\* a step that evaluates a BUY or STRONG_BUY whose position value exceeds the
\* cash, or that arrives when max_positions positions are open
BuyWithoutCashOrRoom ==
    \A decision \in Decisions :
        ( /\ pc = "strategies"
          /\ decision.signal \in BuySignals
          /\ \/ (current_balance * EnhancedSize(decision)) \div 100 > cash
             \/ Len(positions) >= max_positions
          /\ RunStrategy(decision) )
        => UNCHANGED <<cash, positions, trade_history>>

(***************************************************************************)
(* C2: in the simulator, with prices >= 0, cash never goes negative and    *)
(* the number of open positions never exceeds max_positions; a BUY whose   *)
(* position value exceeds the cash, or that arrives when max_positions     *)
(* positions are open, leaves cash, positions and trade_history unchanged; *)
(* the total balance never goes negative and stays positive as long as no  *)
(* position has been closed at price 0.                                    *)
(***************************************************************************)
C2_CashAndCap ==
    /\ [](CashAndCap /\ current_balance >= 0)
    /\ []((\A i \in 1..Len(SellRecords) : SellRecords[i].price > 0)
             => current_balance > 0)
    /\ [][BuyWithoutCashOrRoom]_vars

\* the last strategy of the second tick was evaluated with max_positions
\* positions open, none of them its own, and cash for half the balance
C2_Witness ==
    /\ pc = "portfolio"
    /\ ticks = 2
    /\ Len(positions) = max_positions
    /\ ~get_position(positions, tick.symbol, StrategyOrder[Len(StrategyOrder)])
    /\ (current_balance * 50) \div 100 <= cash

\* C2 as stated: the total balance stays positive whatever the prices >= 0
C2_BalanceStaysPositive ==
    /\ [](CashAndCap /\ current_balance > 0)
    /\ [][BuyWithoutCashOrRoom]_vars

Returned == run.pc = "returned"

\* how often the trade object id occurs in a list of trades
Occurrences(trades, id) ==
    Cardinality({ i \in 1..Len(trades) : trades[i].id = id })

PnlSum(trades) == SumSeq([i \in 1..Len(trades) |-> trades[i].pnl])

(***************************************************************************)
(* C3: when run_backtest returns, every trade opened during the run is     *)
(* exactly once in completed_trades and exactly once in the trades of all  *)
(* BacktestResults together; each strategy's final_capital is              *)
(* initial_capital plus the pnl of its trades, and current_capital is      *)
(* initial_capital plus the pnl of all completed trades.                   *)
(***************************************************************************)
C3_EveryTradeOnce ==
    Returned =>
        /\ \A id \in 1..opened :
               /\ Occurrences(completed_trades, id) = 1
               /\ SumSeq([k \in 1..Len(StrategyOrder) |->
                      IF StrategyOrder[k] \in DOMAIN results
                      THEN Occurrences(results[StrategyOrder[k]].trades, id)
                      ELSE 0]) = 1
        /\ Len(completed_trades) = opened
        /\ \A name \in DOMAIN results :
               /\ name \in Strategies
               /\ \A k \in 1..Len(results[name].trades) :
                      results[name].trades[k].strategy_name = name
               /\ results[name].final_capital =
                      initial_capital + PnlSum(results[name].trades)
        /\ current_capital = initial_capital + PnlSum(completed_trades)

\* a returned run in which both strategies traded and one trade was closed
\* with a gain or a loss
C3_Witness ==
    /\ Returned
    /\ opened = 2
    /\ DOMAIN results = Strategies
    /\ \E i \in 1..Len(completed_trades) : completed_trades[i].pnl # 0

(***************************************************************************)
(* C4: every trade the backtester has closed satisfies                     *)
(* pnl = (exit_price - entry_price) * quantity,                            *)
(* pnl_percentage = pnl / (entry_price * quantity) * 100 and               *)
(* is_winner = (pnl > 0).                                                  *)
(***************************************************************************)
C4_TradeResults ==
    \A i \in 1..Len(completed_trades) :
        LET t == completed_trades[i]
        IN /\ t.pnl = (t.exit_price - t.entry_price) * t.quantity
           /\ t.entry_price * t.quantity # 0
           /\ t.pnl_percentage * (t.entry_price * t.quantity) = t.pnl * 100
           /\ t.is_winner = (t.pnl > 0)

\* a trade closed by its stop-loss at a loss
C4_Witness ==
    \E i \in 1..Len(completed_trades) :
        /\ completed_trades[i].exit_reason = "Stop Loss"
        /\ completed_trades[i].pnl < 0
        /\ ~completed_trades[i].is_winner

\* the timestamps of the data inside [start_date, end_date]
InRange ==
    { t \in Timestamps :
        /\ run.start_date <= t /\ t <= run.end_date
        /\ \E s \in Symbols : \E i \in 1..Len(run.historical_data[s]) :
               run.historical_data[s][i].timestamp = t }

SampleTimes == [i \in 1..Len(equity_history) |-> equity_history[i][1]]

StrictlyIncreasing(s) == \A i, j \in 1..Len(s) : i < j => s[i] < s[j]

LoopDone == run.pc \in {"closing", "returned"}

(***************************************************************************)
(* C5: run_backtest processes every distinct timestamp of the data inside  *)
(* [start_date, end_date] exactly once and in strictly increasing order:   *)
(* the timestamp in process is later than every sampled one, the samples   *)
(* of equity_history are strictly increasing in time, all inside the       *)
(* range, and after the loop there is exactly one sample per timestamp.    *)
(***************************************************************************)
C5_TimestampsInOrder ==
    /\ StrictlyIncreasing(SampleTimes)
    /\ \A i \in 1..Len(equity_history) : SampleTimes[i] \in InRange
    /\ run.pc = "loop" =>
           /\ CurrentTimestamp \in InRange
           /\ \A i \in 1..Len(equity_history) : SampleTimes[i] < CurrentTimestamp
           /\ \A t \in InRange :
                  t < CurrentTimestamp => \E i \in 1..Len(equity_history) :
                                             SampleTimes[i] = t
    /\ LoopDone =>
           \A t \in InRange :
               Cardinality({ i \in 1..Len(equity_history) :
                               SampleTimes[i] = t }) = 1

\* two samples in time order, the later one for the data of the symbol the
\* loop visits first
C5_Witness ==
    /\ Returned
    /\ SampleTimes = <<2, 3>>
    /\ Len(run.historical_data["BTC"]) = 1
    /\ run.historical_data["BTC"][1].timestamp = 3
    /\ Len(run.historical_data["ETH"]) = 1
    /\ run.historical_data["ETH"][1].timestamp = 2

\* the price of the data point with the latest timestamp <= limit
LatestPrice(series, limit) ==
    LET upTo == { i \in 1..Len(series) : series[i].timestamp <= limit }
    IN series[CHOOSE i \in upTo :
                  \A j \in upTo : series[j].timestamp <= series[i].timestamp].price

\* the step of run_backtest that closes what is still open
BacktestEndStep ==
    run.pc = "closing" =>
        \A i \in 1..Len(active_trades) :
            \E k \in (Len(completed_trades) + 1)..Len(completed_trades') :
                /\ completed_trades'[k].id = active_trades[i].id
                /\ completed_trades'[k].exit_reason = "Backtest End"
                /\ completed_trades'[k].exit_time = run.end_date
                /\ completed_trades'[k].exit_price =
                       LatestPrice(run.historical_data[active_trades[i].symbol],
                                   run.end_date)

(***************************************************************************)
(* C7: when run_backtest returns, active_trades is empty; every trade that *)
(* was open after the last timestamp has been moved to completed_trades    *)
(* with exit_reason "Backtest End", exit_time = end_date and the price of  *)
(* its symbol's last data point at or before end_date as exit_price.       *)
(***************************************************************************)
C7_BacktestEnd ==
    /\ [](Returned => active_trades = <<>>)
    /\ [][BacktestEndStep]_vars

\* a returned run that closed two trades at its end
C7_Witness ==
    /\ Returned
    /\ Len(completed_trades) = 2
    /\ \A i \in 1..2 : completed_trades[i].exit_reason = "Backtest End"

\* the history without the data points later than timestamp t
Truncate(h, t) ==
    [s \in DOMAIN h |-> SelectSeq(h[s], LAMBDA point : point.timestamp <= t)]

\* the timestamps run_backtest has reached, the one in process included
Reached == SubSeq(run.sorted_timestamps, 1, run.i)

\* what the iteration in process computes from the whole history is what it
\* computes from the history cut after its timestamp
NoLookaheadAt(t) ==
    LET h == run.historical_data
        cut == Truncate(h, t)
    IN /\ Reached = SelectSeq(sorted_timestamps(cut, run.start_date, run.end_date),
                              LAMBDA u : u <= t)
       /\ \A s \in Symbols :
              /\ current_data(h[s], t) = current_data(cut[s], t)
              /\ ProcessRaises(h, t, s) = ProcessRaises(cut, t, s)
              /\ recent_prices(h[s], t) = recent_prices(cut[s], t)
              /\ current_data(h[s], t) # 0 =>
                     create_mock_indicators(h[s][current_data(h[s], t)].price,
                                            h[s], t)
                     = create_mock_indicators(
                           cut[s][current_data(cut[s], t)].price, cut[s], t)
       /\ ( /\ run.symbol <= Len(SymbolOrder)
            /\ ~ProcessRaises(h, t, SymbolOrder[run.symbol])
            /\ cut # h ) =>
              \A d \in [Strategies -> Decisions] :
                  process_symbol(Ledger, h, t, SymbolOrder[run.symbol], d)
                  = process_symbol(Ledger, cut, t, SymbolOrder[run.symbol], d)
       /\ calculate_portfolio_value(Ledger, t, h)
              = calculate_portfolio_value(Ledger, t, cut)

(***************************************************************************)
(* C6: no lookahead.  Whatever the backtester computes while it processes  *)
(* timestamp t (the timestamps reached, the data point, the indicators,    *)
(* the exits and entries with their capital, the equity sample) is the     *)
(* same for the history it was given and for that history without the      *)
(* data points later than t; so two histories that agree up to t lead,     *)
(* step by step, to the same state.                                        *)
(***************************************************************************)
C6_NoLookahead == run.pc = "loop" => NoLookaheadAt(CurrentTimestamp)

\* the equity sample is about to be taken with a trade open on a symbol
\* whose history holds a later data point with another price
C6_Witness ==
    /\ run.pc = "loop"
    /\ run.symbol > Len(SymbolOrder)
    /\ \E i \in 1..Len(active_trades) :
           LET series == run.historical_data[active_trades[i].symbol]
           IN \E k \in 1..Len(series) :
                  /\ series[k].timestamp > CurrentTimestamp
                  /\ series[k].price # LatestPrice(series, CurrentTimestamp)

\* the records a step appends to trade_history
NewRecords ==
    SubSeq(trade_history', Len(trade_history) + 1, Len(trade_history'))

Sold(pos, price, reason) ==
    \E k \in 1..Len(NewRecords) :
        /\ NewRecords[k].action = "SELL"
        /\ NewRecords[k].id = pos.id
        /\ NewRecords[k].price = price
        /\ NewRecords[k].reason = reason

StillOpen(pos) == \E j \in 1..Len(positions') : positions'[j] = pos

\* step 1 of a simulator tick for tick'.symbol at tick'.price
SimExitCheck ==
    (pc = "idle" /\ pc' = "strategies") =>
        /\ \A i \in 1..Len(positions) :
               LET pos == positions[i]
               IN IF /\ pos.symbol = tick'.symbol
                     /\ pos.stop_loss # NoLevel
                     /\ pos.stop_loss >= tick'.price
                  THEN Sold(pos, tick'.price, "Stop-Loss") /\ ~StillOpen(pos)
                  ELSE IF /\ pos.symbol = tick'.symbol
                          /\ pos.take_profit # NoLevel
                          /\ pos.take_profit <= tick'.price
                  THEN Sold(pos, tick'.price, "Take-Profit") /\ ~StillOpen(pos)
                  ELSE StillOpen(pos)
        /\ Len(NewRecords) = Len(positions) - Len(positions')
        /\ \A k \in 1..Len(NewRecords) : NewRecords[k].action = "SELL"

\* the strategies of a simulator tick run after its exit check: their steps
\* record no stop-loss and no take-profit
SimEntryAfterExit ==
    pc = "strategies" =>
        \A k \in 1..Len(NewRecords) :
            NewRecords[k].reason \notin {"Stop-Loss", "Take-Profit"}

\* the completed trade a backtester step adds, if any
Completed(trade, price, reason) ==
    /\ Len(completed_trades') = Len(completed_trades) + 1
    /\ LET closed == completed_trades'[Len(completed_trades')]
       IN /\ closed.id = trade.id
          /\ closed.exit_price = price
          /\ closed.exit_time = CurrentTimestamp
          /\ closed.exit_reason = reason

\* one iteration of _process_timestamp for a symbol with a data point
BtExitCheck ==
    ( /\ run.pc = "loop"
      /\ run.symbol <= Len(SymbolOrder)
      /\ run'.symbol = run.symbol + 1
      /\ HasData ) =>
        LET X == SymbolOrder[run.symbol]
            series == run.historical_data[X]
            p == series[current_data(series, CurrentTimestamp)].price
        IN /\ \A i \in 1..Len(active_trades) :
                  LET trade == active_trades[i]
                  IN IF trade.symbol # X
                     THEN \E j \in 1..Len(active_trades') :
                              active_trades'[j] = trade
                     ELSE IF trade.stop_loss # NoLevel /\ trade.stop_loss >= p
                     THEN Completed(trade, p, "Stop Loss")
                     ELSE IF trade.take_profit # NoLevel /\ trade.take_profit <= p
                     THEN Completed(trade, p, "Take Profit")
                     ELSE TRUE
           \* an entry in the step of an exit is sized from the capital the
           \* exit has returned
           /\ ( /\ Len(completed_trades') = Len(completed_trades) + 1
                /\ opened' = opened + 1 ) =>
                  LET closed == completed_trades'[Len(completed_trades')]
                      entered == TradeOf(active_trades', X)
                  IN /\ HasTrade(active_trades, X)
                     /\ closed.id = TradeOf(active_trades, X).id
                     /\ entered.id = opened'
                     /\ current_capital' + entered.quantity * p =
                            current_capital + closed.quantity * p
                     /\ \E decision \in Decisions :
                            entered.quantity * p =
                               ((((current_capital + closed.quantity * p)
                                     * MaxAllocationPct) \div 100)
                                  * decision.position_size) \div 100

CloseReasons == {"Stop-Loss", "Take-Profit", "Strategy Signal", "Risk Management"}

\* how often a position has been sold
Sales(id) ==
    Cardinality({ k \in 1..Len(SellRecords) : SellRecords[k].id = id })

PositionLedger ==
    /\ \A k \in 1..Len(SellRecords) : SellRecords[k].reason \in CloseReasons
    /\ Len(BuyRecords) - Len(SellRecords) = Len(positions)
    /\ \A k \in 1..Len(BuyRecords) :
           LET id == BuyRecords[k].id
               open == \E i \in 1..Len(positions) : positions[i].id = id
           IN /\ Sales(id) <= 1
              /\ open <=> Sales(id) = 0

\* a step removes a position exactly when it appends its SELL record, and
\* whatever it opens is a position that never existed before
CloseIsTerminal ==
    /\ \A i \in 1..Len(positions) :
           StillOpen(positions[i]) <=>
               ~\E k \in 1..Len(NewRecords) :
                    /\ NewRecords[k].action = "SELL"
                    /\ NewRecords[k].id = positions[i].id
    /\ \A j \in 1..Len(positions') :
           \/ \E i \in 1..Len(positions) : positions[i] = positions'[j]
           \/ \A k \in 1..Len(trade_history) :
                  trade_history[k].id # positions'[j].id

(***************************************************************************)
(* C9: in the simulator every opened position is closed at most once and   *)
(* closed is terminal.  Each close appends one SELL record, with a reason  *)
(* out of Stop-Loss, Take-Profit, Strategy Signal and Risk Management, and *)
(* removes the position in the same step; the BUY records outnumber the    *)
(* SELL records by the number of open positions; a position that was       *)
(* removed is never open again.                                            *)
(***************************************************************************)
C9_ClosedOnce == []PositionLedger /\ [][CloseIsTerminal]_vars

\* a pair that was closed by a strategy signal in the first tick holds a new
\* position after the second
C9_Witness ==
    /\ pc = "idle"
    /\ ticks = 2
    /\ \E k \in 1..Len(SellRecords) :
           /\ SellRecords[k].reason = "Strategy Signal"
           /\ \E i \in 1..Len(positions) :
                  /\ positions[i].symbol = SellRecords[k].symbol
                  /\ positions[i].strategy_name = SellRecords[k].strategy
                  /\ positions[i].id # SellRecords[k].id

\* the drawdown of sample k of balance_history from the peak up to it
RECURSIVE PeakUpTo(_)
PeakUpTo(k) ==
    IF k = 0 THEN initial_balance
    ELSE LET before == PeakUpTo(k - 1)
             balance == balance_history[k].total_balance
         IN IF balance > before THEN balance ELSE before

DrawdownOver15(k) ==
    (PeakUpTo(k) - balance_history[k].total_balance) * 100 > 15 * PeakUpTo(k)

EverOver15 == \E k \in 1..Len(balance_history) : DrawdownOver15(k)

\* step 4 of a tick whose step 3 recorded a drawdown above 15%
LiquidationStep ==
    ( /\ pc = "risk"
      /\ DrawdownOver15(Len(balance_history)) ) =>
        /\ pc' = "idle"
        /\ positions' = <<>>
        /\ Len(NewRecords) = Len(positions)
        /\ \A i \in 1..Len(positions) :
               /\ NewRecords[i].action = "SELL"
               /\ NewRecords[i].id = positions[i].id
               /\ NewRecords[i].reason = "Risk Management"

(***************************************************************************)
(* C10: if step 3 of a simulator tick records a drawdown from the peak     *)
(* balance above 15%, step 4 of the same tick closes every open position   *)
(* with a SELL record of reason "Risk Management"; as long as no recorded  *)
(* balance lay more than 15% below the peak before it, no record has that  *)
(* reason.                                                                 *)
(***************************************************************************)
C10_RiskManagement ==
    /\ [][LiquidationStep]_vars
    /\ [](~EverOver15 =>
             \A k \in 1..Len(trade_history) :
                 trade_history[k].reason # "Risk Management")

\* a tick has ended with a liquidation, after a stop-loss below the entry
\* price had cost a quarter of the balance
C10_Witness ==
    /\ pc = "idle"
    /\ positions = <<>>
    /\ Len(balance_history) = 2
    /\ DrawdownOver15(2)
    /\ balance_history[2].positions_count = 1
    /\ trade_history[Len(trade_history)].reason = "Risk Management"

\* the open positions valued at the price of the running tick
MarkToMarket ==
    SumSeq([i \in 1..Len(positions) |-> positions[i].quantity * tick.price])

(***************************************************************************)
(* C11: after step 3 of a simulator tick the total balance is the cash     *)
(* plus the mark-to-market value of the open positions, quantity times the *)
(* latest tick price of the position's symbol.  Stated for the ticks in    *)
(* which every open position is on the symbol of the tick, whose latest    *)
(* price is the price of the tick.  The program values a position at       *)
(* quantity times entry_price, so an open position never moves the balance.*)
(***************************************************************************)
C11_MarkToMarketBalance ==
    ( /\ pc = "risk"
      /\ \A i \in 1..Len(positions) : positions[i].symbol = tick.symbol ) =>
        current_balance = cash + MarkToMarket

\* a step of the strategy loop that handles a SELL decision
SellStep ==
    \E decision \in Decisions :
        /\ decision.signal = "SELL"
        /\ RunStrategy(decision)

\* the SELL of the running strategy closes every position on the symbol of
\* the tick, at the price of the tick, and nothing else
SellClosesSymbol ==
    ( /\ pc = "strategies"
      /\ SellStep ) =>
        /\ \A i \in 1..Len(positions) :
               IF positions[i].symbol = tick.symbol
               THEN /\ ~StillOpen(positions[i])
                    /\ Sold(positions[i], tick.price, "Strategy Signal")
               ELSE StillOpen(positions[i])
        /\ \A j \in 1..Len(positions') :
               \E i \in 1..Len(positions) : positions[i] = positions'[j]
        /\ Len(NewRecords) = Len(positions) - Len(positions')

\* the SELL of the running strategy leaves every position open that another
\* strategy holds or that is on another symbol
SellClosesOwnOnly ==
    ( /\ pc = "strategies"
      /\ SellStep ) =>
        \A i \in 1..Len(positions) :
            ( \/ positions[i].symbol # tick.symbol
              \/ positions[i].strategy_name # StrategyOrder[tick.strategy] ) =>
                StillOpen(positions[i])

(***************************************************************************)
(* C12, as the program behaves: when a strategy emits SELL for symbol X in *)
(* the simulator, every open position on X is closed at the price of the   *)
(* tick with the reason "Strategy Signal", whichever strategy opened it;   *)
(* the positions on other symbols stay open and unchanged.                 *)
(***************************************************************************)
C12_SellClosesSymbol == [][SellClosesSymbol]_vars

(***************************************************************************)
(* C12, as stated: when strategy S emits SELL for symbol X, only the       *)
(* positions S holds on X are closed; positions on X of other strategies   *)
(* and all positions on other symbols stay open and unchanged.             *)
(***************************************************************************)
C12_SellClosesOwnOnly == [][SellClosesOwnOnly]_vars

\* the SELL of the second strategy has closed the position the first
\* strategy had opened on the symbol, and a position on the other symbol is
\* still open
C12_Witness ==
    /\ pc = "portfolio"
    /\ tick.strategy = 2
    /\ Len(positions) = 1
    /\ positions[1].symbol # tick.symbol
    /\ trade_history # <<>>
    /\ LET last == trade_history[Len(trade_history)]
       IN /\ last.action = "SELL"
          /\ last.reason = "Strategy Signal"
          /\ last.symbol = tick.symbol
          /\ last.strategy = StrategyOrder[1]

\* a step of the strategy loop whose BUY or STRONG_BUY decision the running
\* strategy's validate_signal turns down changes nothing in the ledger
ValidatedEntry ==
    pc = "strategies" =>
        \A decision \in Decisions :
            ( /\ decision.signal \in BuySignals
              /\ ~validate_signal(decision, StrategyOrder[tick.strategy])
              /\ RunStrategy(decision) ) =>
                UNCHANGED <<positions, cash, trade_history>>

(***************************************************************************)
(* C13: the simulator opens a position for a BUY or STRONG_BUY decision    *)
(* only if the strategy's validate_signal accepts it; a decision with a    *)
(* confidence below the strategy's minimum or a position_size outside      *)
(* (0,1] never changes positions, cash or trade_history.  The program      *)
(* hands every decision to _process_trading_decision unvalidated.          *)
(***************************************************************************)
C13_ValidatedEntry == [][ValidatedEntry]_vars

\* a level at or above the price the long position was entered at
StopNotBelowEntry(p) == p.stop_loss # NoLevel /\ p.stop_loss >= p.entry_price

\* neither engine holds or has completed a position entered with such a stop
NoStopAtOrAboveEntry ==
    /\ \A i \in 1..Len(positions) : ~StopNotBelowEntry(positions[i])
    /\ \A i \in 1..Len(active_trades) : ~StopNotBelowEntry(active_trades[i])
    /\ \A i \in 1..Len(completed_trades) :
           ~StopNotBelowEntry(completed_trades[i])

\* the simulator's step for a buying decision with such a stop changes
\* nothing in the ledger and goes on to the next strategy
RejectedStop ==
    pc = "strategies" =>
        \A decision \in Decisions :
            ( /\ decision.signal \in BuySignals
              /\ decision.stop_loss # NoLevel
              /\ decision.stop_loss >= tick.price
              /\ RunStrategy(decision) ) =>
                UNCHANGED <<positions, cash, trade_history>>

(***************************************************************************)
(* C14: a BUY or STRONG_BUY decision whose stop_loss is at or above the    *)
(* entry price is rejected: neither the simulator nor the backtester opens *)
(* a position for it, the ledger is unchanged and the tick goes on.  The   *)
(* program never compares a decision's stop_loss with the price.           *)
(***************************************************************************)
C14_StopBelowEntry == []NoStopAtOrAboveEntry /\ [][RejectedStop]_vars

\* the backtester holds a trade it entered with a stop on its entry price
C14_Witness ==
    /\ run.pc = "loop"
    /\ \E i \in 1..Len(active_trades) : StopNotBelowEntry(active_trades[i])

\* the ledger invariants of the simulator
LedgerInvariants ==
    /\ cash >= 0
    /\ OnePositionPerPair
    /\ Len(BuyRecords) - Len(SellRecords) = Len(positions)

(***************************************************************************)
(* C15: under any interleaving of two concurrent process_market_data calls *)
(* on one PortfolioSimulator the ledger invariants hold: the cash never    *)
(* becomes negative, no (symbol, strategy) pair holds two open positions,  *)
(* no position is overwritten while the cash was deducted twice, and every *)
(* cash deduction has a matching open position.                            *)
(***************************************************************************)
C15_SerializedLedger == LedgerInvariants

\* both callers have returned and the cash is negative
C15_Witness ==
    /\ \A t \in Threads : threads[t].pc = "done"
    /\ cash < 0

\* analyze has returned, from a call whose arguments it could read
Analyzed(strategy_name) ==
    analyzed.strategy = strategy_name /\ ~inputs.raises

Buys == analyzed.decision.signal \in BuySignals

\* atr_percentage outside the band of the strategy: above 3.0 for the
\* conservative one, below 0.5 or above 4.0 for the moderate one
OutsideBand ==
    \/ /\ analyzed.strategy = "conservative"
       /\ inputs.indicators.atr_percentage > 30
    \/ /\ analyzed.strategy = "moderate"
       /\ \/ inputs.indicators.atr_percentage < 5
          \/ inputs.indicators.atr_percentage > 40

(***************************************************************************)
(* C16: volatility veto.  For both registered strategies and all inputs,   *)
(* if atr_percentage lies outside the strategy's band, analyze returns     *)
(* neither BUY nor STRONG_BUY, whatever the other inputs are.  The         *)
(* breakout branch of the moderate strategy does not consult the           *)
(* volatility.                                                             *)
(***************************************************************************)
C16_VolatilityVeto ==
    \A strategy_name \in Strategies :
        (Analyzed(strategy_name) /\ OutsideBand) => ~Buys

\* the moderate strategy has bought on a breakout at an atr_percentage of 4.5
C16_Witness ==
    /\ Analyzed("moderate")
    /\ inputs.indicators.atr_percentage = 45
    /\ inputs.indicators.bb_position = 95
    /\ analyzed.decision.signal = "BUY"
    /\ analyzed.decision.confidence = 75

CriticalNegative ==
    /\ inputs.news.given
    /\ inputs.news.is_critical
    /\ inputs.news.sentiment_score < 0

(***************************************************************************)
(* C17: news gate.  For both registered strategies and all technical       *)
(* inputs, when the news passed to analyze is critical with a negative     *)
(* sentiment, analyze returns neither BUY nor STRONG_BUY.  The breakout    *)
(* branch of the moderate strategy does not consult the news.              *)
(***************************************************************************)
C17_NewsGate ==
    \A strategy_name \in Strategies :
        (Analyzed(strategy_name) /\ CriticalNegative) => ~Buys

\* the moderate strategy has bought on a breakout under critical news with a
\* sentiment of -5, inside its volatility band
C17_Witness ==
    /\ Analyzed("moderate")
    /\ CriticalNegative
    /\ inputs.indicators.atr_percentage = 30
    /\ analyzed.decision.signal = "BUY"

\* the minimum volume_ratio of the strategy: 0.8 and 1.2
MinVolumeRatio(strategy_name) ==
    IF strategy_name = "moderate" THEN 12 ELSE 8

(***************************************************************************)
(* C18: volume confirmation.  For both registered strategies analyze       *)
(* returns BUY or STRONG_BUY only when volume_ratio meets the strategy's   *)
(* minimum (conservative 0.8, moderate 1.2) or exceeds the spike           *)
(* threshold; below the minimum no BUY is issued.  The conservative        *)
(* strategy never reads volume_ratio, and the first BUY branch of the      *)
(* moderate strategy only adds to the confidence when the volume confirms. *)
(***************************************************************************)
C18_VolumeConfirmation ==
    \A strategy_name \in Strategies :
        (Analyzed(strategy_name) /\ Buys) =>
            inputs.indicators.volume_ratio >= MinVolumeRatio(strategy_name)

\* the conservative strategy has bought at a volume_ratio of 0.5
C18_Witness ==
    /\ Analyzed("conservative")
    /\ inputs.indicators.volume_ratio = 5
    /\ analyzed.decision.signal = "BUY"

BothLevelsSet ==
    analyzed.decision.stop_loss # None /\ analyzed.decision.take_profit # None

(***************************************************************************)
(* C19: for every BUY or STRONG_BUY decision analyze of either registered  *)
(* strategy returns at a positive price, with any indicator values,        *)
(* whenever both levels are set: stop_loss < entry price < take_profit.    *)
(* The moderate strategy derives the stop distance from atr_percentage     *)
(* and its breakout branch buys at an atr_percentage of 0.                 *)
(***************************************************************************)
C19_LevelsAroundEntry ==
    \A strategy_name \in Strategies :
        (Analyzed(strategy_name) /\ Buys /\ inputs.price > 0 /\ BothLevelsSet) =>
            /\ analyzed.decision.stop_loss < inputs.price * LevelScale
            /\ inputs.price * LevelScale < analyzed.decision.take_profit

\* the moderate strategy has returned a BUY with both levels on the price
C19_Witness ==
    /\ Analyzed("moderate")
    /\ Buys
    /\ inputs.indicators.atr_percentage = 0
    /\ analyzed.decision.stop_loss = inputs.price * LevelScale
    /\ analyzed.decision.take_profit = inputs.price * LevelScale

(***************************************************************************)
(* C20: every TradingDecision analyze of ConservativeTrendStrategy and of  *)
(* ModerateMomentumStrategy returns, the one of the internal-fault path    *)
(* included, has 0 <= confidence <= 1; its position_size lies in (0,1] if  *)
(* and only if the signal is BUY or STRONG_BUY, and otherwise it is 0 and  *)
(* stop_loss and take_profit are unset.                                    *)
(***************************************************************************)
C20_DecisionShape ==
    analyzed.strategy # "" =>
        LET decision == analyzed.decision
        IN /\ 0 <= decision.confidence /\ decision.confidence <= 100
           /\ (0 < decision.position_size /\ decision.position_size <= SizeScale)
                  <=> decision.signal \in BuySignals
           /\ decision.signal \notin BuySignals =>
                  /\ decision.position_size = 0
                  /\ decision.stop_loss = None
                  /\ decision.take_profit = None

\* the moderate strategy has returned a BUY whose confidence the branch had
\* summed to 1.2, at the largest position size
C20_Witness ==
    /\ Analyzed("moderate")
    /\ analyzed.decision.signal = "BUY"
    /\ inputs.indicators.bb_position = 10
    /\ inputs.indicators.volume_ratio = 20
    /\ get_trend_direction(inputs.indicators) = "bullish"
    /\ analyzed.decision.confidence = 100
    /\ analyzed.decision.position_size = MODERATE_CONFIG.max_position_size

(***************************************************************************)
(* C21: analyze of a registered strategy never raises.  A call whose       *)
(* evaluation of the inputs faults returns a decision with signal HOLD,    *)
(* confidence 0, position_size 0 and neither stop_loss nor take_profit,    *)
(* and the strategy's config, position ledger and metrics are what they    *)
(* were before the call.                                                   *)
(***************************************************************************)
FaultBecomesHold ==
    \A strategy_name \in Strategies :
        (inputs.raises /\ Analyze(strategy_name)) =>
            /\ analyzed'.decision.signal = "HOLD"
            /\ analyzed'.decision.confidence = 0
            /\ analyzed'.decision.position_size = 0
            /\ analyzed'.decision.stop_loss = None
            /\ analyzed'.decision.take_profit = None
            /\ UNCHANGED <<config, strategy_positions, metrics>>

C21_FaultBecomesHold == [][FaultBecomesHold]_vars

\* the moderate strategy has returned from a call that faulted
C21_Witness ==
    /\ inputs.raises
    /\ analyzed.strategy = "moderate"
    /\ analyzed.decision.signal = "HOLD"

(***************************************************************************)
(* C22: for every input that does not fault, ConservativeTrendStrategy     *)
(* returns BUY exactly when ma50 > 1.01 x ma200, rsi < 70,                 *)
(* atr_percentage <= 3 and the news are absent or neither critical nor     *)
(* below -3; the BUY has confidence 0.7 (0.8 when rsi <= 30), position     *)
(* size 0.05, stop_loss 0.96 x price and take_profit 1.12 x price.  Every  *)
(* other input gives SELL with confidence 0.6.  Scenario A (rsi 30, ma50   *)
(* above 1.02 x ma200, atr_percentage in the band, confirmed volume, no    *)
(* critical news) gives BUY with confidence >= 0.6 and                     *)
(* stop_loss < price < take_profit.                                        *)
(***************************************************************************)
ConservativeBuyCase(market) ==
    /\ market.indicators.ma50 * 100 > market.indicators.ma200 * 101
    /\ market.indicators.rsi < 70
    /\ market.indicators.atr_percentage <= 30
    /\ \/ ~market.news.given
       \/ market.news.sentiment_score >= -3 /\ ~market.news.is_critical

ScenarioA(market) ==
    /\ market.indicators.rsi = 30
    /\ market.indicators.ma50 * 100 > market.indicators.ma200 * 102
    /\ market.indicators.atr_percentage \in 5..30
    /\ market.indicators.volume_ratio >= 12
    /\ ~(market.news.given /\ market.news.is_critical)
    /\ ~market.raises

C22_DecisionTable ==
    (Analyzed("conservative") /\ ~inputs.raises) =>
        /\ IF ConservativeBuyCase(inputs)
           THEN analyzed.decision =
                    Decision("BUY",
                             IF inputs.indicators.rsi <= 30 THEN 80 ELSE 70,
                             (5 * SizeScale) \div 100,
                             (96 * inputs.price * LevelScale) \div 100,
                             (112 * inputs.price * LevelScale) \div 100)
           ELSE /\ analyzed.decision.signal = "SELL"
                /\ analyzed.decision.confidence = 60
        /\ (ScenarioA(inputs) /\ ~inputs.news.given) =>
               /\ analyzed.decision.signal = "BUY"
               /\ analyzed.decision.confidence >= 60
               /\ analyzed.decision.stop_loss < inputs.price * LevelScale
               /\ inputs.price * LevelScale < analyzed.decision.take_profit

\* the conservative strategy has answered Scenario A
C22_Witness ==
    /\ Analyzed("conservative")
    /\ ScenarioA(inputs)
    /\ ~inputs.news.given
    /\ analyzed.decision.signal = "BUY"
    /\ analyzed.decision.confidence = 80

\* the conservative strategy has answered SELL because the trend is only
\* 1% above the long average
C22_SellWitness ==
    /\ Analyzed("conservative")
    /\ inputs.indicators.ma50 = 101
    /\ inputs.indicators.rsi = 50
    /\ inputs.indicators.atr_percentage = 25
    /\ ~inputs.news.given
    /\ analyzed.decision.signal = "SELL"

(***************************************************************************)
(* C23: validate_signal returns false when the strategy is disabled, when  *)
(* a BUY or STRONG_BUY arrives while the number of open positions has      *)
(* reached max_positions, when the confidence is below min_confidence, or  *)
(* when position_size is outside (0, 1]; it returns true in every other    *)
(* case, and it changes neither the position ledger nor the metrics.       *)
(***************************************************************************)
SizeOutOfRange(decision) ==
    decision.position_size <= 0 \/ decision.position_size > SizeScale

CapReached == len_positions(strategy_positions) >= config.max_positions

ValidateReturns(decision, rejected) ==
    /\ returned'.outcome = IF rejected THEN "False" ELSE "True"
    /\ UNCHANGED <<config, strategy_positions, metrics>>

\* the step is a call of validate_signal, on the decision kept in returned
ValidateStep ==
    /\ returned'.op = "validate_signal"
    /\ ValidateSignal(returned'.decision, returned'.symbol)

ValidateSignalContract ==
    ValidateStep =>
        ValidateReturns(returned'.decision,
            \/ ~config.enabled
            \/ returned'.decision.signal \in BuySignals /\ CapReached
            \/ returned'.decision.confidence < config.min_confidence
            \/ SizeOutOfRange(returned'.decision))

C23_ValidateSignal == [][ValidateSignalContract]_vars

\* C23 as stated: the position limit rejects a decision of any signal
ValidateSignalCapOnAll ==
    ValidateStep =>
        ValidateReturns(returned'.decision,
            \/ ~config.enabled
            \/ CapReached
            \/ returned'.decision.confidence < config.min_confidence
            \/ SizeOutOfRange(returned'.decision))

C23_ValidateSignalCapOnAll == [][ValidateSignalCapOnAll]_vars

\* a SELL was accepted while the strategy held max_positions positions
C23_Witness ==
    /\ returned.op = "validate_signal"
    /\ returned.decision.signal = "SELL"
    /\ CapReached
    /\ returned.outcome = "True"

\* a BUY was rejected only because the strategy held max_positions positions
C23_CapWitness ==
    /\ returned.op = "validate_signal"
    /\ returned.decision = Decision("BUY", 65, SizeScale, None, None)
    /\ config.enabled
    /\ CapReached
    /\ returned.outcome = "False"

(***************************************************************************)
(* C24: update_position returns None when the strategy holds no position   *)
(* on the symbol; for a held position it returns a SELL decision with      *)
(* confidence 1.0 exactly when the price is at or below the stored         *)
(* stop_loss or at or above the stored take_profit, and None otherwise;    *)
(* the position ledger is the same after the call.                         *)
(***************************************************************************)
\* the step is a call of update_position, on the arguments kept in returned
UpdateStep ==
    /\ returned'.op = "update_position"
    /\ UpdatePosition(returned'.symbol, returned'.price)

LevelCrossed(position, price) ==
    \/ position.stop_loss /= None /\ price <= position.stop_loss
    \/ position.take_profit /= None /\ price >= position.take_profit

UpdateReturns(position, price) ==
    /\ UNCHANGED strategy_positions
    /\ IF position.held /\ LevelCrossed(position, price)
       THEN /\ returned'.outcome = "decision"
            /\ returned'.decision.signal = "SELL"
            /\ returned'.decision.confidence = 100
       ELSE returned'.outcome = "None"

UpdatePositionContract ==
    UpdateStep =>
        UpdateReturns(strategy_positions[returned'.symbol], returned'.price)

C24_UpdatePosition == [][UpdatePositionContract]_vars

\* the same for the positions whose value is not zero and whose levels are
\* unset or not 0.0
UpdatePositionOfValue ==
    LET position == strategy_positions[returned'.symbol]
    IN (/\ UpdateStep
        /\ position.held => strategy_current_value(position) /= 0
        /\ position.stop_loss /= 0
        /\ position.take_profit /= 0) =>
           UpdateReturns(position, returned'.price)

C24_UpdatePositionOfValue == [][UpdatePositionOfValue]_vars

\* update_position raised on a held position whose stop loss was crossed
C24_Witness ==
    /\ returned.op = "update_position"
    /\ returned.outcome = "raised"
    /\ strategy_positions[returned.symbol].held
    /\ strategy_positions[returned.symbol].quantity = 0
    /\ returned.price <= strategy_positions[returned.symbol].stop_loss

\* update_position returned the SELL of a crossed stop loss
C24_SellWitness ==
    /\ returned.op = "update_position"
    /\ returned.outcome = "decision"
    /\ returned.decision = ExitDecision
    /\ returned.price <= strategy_positions[returned.symbol].stop_loss

(***************************************************************************)
(* C25: StrategyRegistry.create never raises.  For a name that is not      *)
(* registered, and for a registered class whose constructor raises, it     *)
(* returns None, and the registered classes and the instance cache are     *)
(* what they were before the call.                                         *)
(***************************************************************************)
\* the step is a call of create, on the name kept in reg_returned
CreateStep ==
    /\ reg_returned'.op = "create"
    /\ Create(reg_returned'.name)

CreateFails(name) ==
    ~is_registered(name) \/ ConstructorRaises(reg_strategies[name])

CreateNeverRaises ==
    CreateStep =>
        /\ reg_returned'.outcome \in {"None", "instance"}
        /\ CreateFails(reg_returned'.name) =>
               /\ reg_returned'.outcome = "None"
               /\ UNCHANGED <<reg_strategies, reg_instances, class_meta,
                              constructed>>

C25_CreateNeverRaises == [][CreateNeverRaises]_vars

\* create has returned None for a registered class whose constructor raised
C25_Witness ==
    /\ reg_returned.op = "create"
    /\ reg_returned.outcome = "None"
    /\ is_registered(reg_returned.name)
    /\ ConstructorRaises(reg_strategies[reg_returned.name])

\* create has returned None for a name nobody registered
C25_UnknownWitness ==
    /\ reg_returned.op = "create"
    /\ reg_returned.outcome = "None"
    /\ reg_returned.name = UnknownName

(***************************************************************************)
(* C26: for every registered name n, the object create(n) returns reports  *)
(* the name n in get_parameters().                                         *)
(***************************************************************************)
C26_CreatedReportsName ==
    (reg_returned.op = "create" /\ reg_returned.outcome = "instance") =>
        get_parameters_name(constructed[reg_returned.instance])
            = reg_returned.name

\* create('conservative_trend') has returned an object of the class that
\* auto_discover registered, and the object reports its display name
C26_Witness ==
    /\ reg_returned.op = "create"
    /\ reg_returned.outcome = "instance"
    /\ reg_returned.name = "conservative_trend"
    /\ constructed[reg_returned.instance] = "ConservativeTrendStrategy"
    /\ get_parameters_name(constructed[reg_returned.instance])
           = "Conservative Trend Following"

(***************************************************************************)
(* C27: the registry caches one object per name.  A successful create(n)   *)
(* leaves its object in the cache of n; get_instance(n) returns the cached *)
(* object of n without constructing anything; for a registered name that   *)
(* is not cached it constructs one object, caches it and returns it; for   *)
(* a name that is not registered it returns None and caches nothing.       *)
(***************************************************************************)
\* the step is a call of get_instance, on the name kept in reg_returned
GetInstanceStep ==
    /\ reg_returned'.op = "get_instance"
    /\ GetInstance(reg_returned'.name)

CreateCaches ==
    (CreateStep /\ reg_returned'.outcome = "instance") =>
        reg_instances'[reg_returned'.name] = reg_returned'.instance

GetInstanceCaches ==
    GetInstanceStep =>
        LET name == reg_returned'.name
        IN IF is_cached(name)
           THEN /\ reg_returned'.outcome = "instance"
                /\ reg_returned'.instance = reg_instances[name]
                /\ UNCHANGED <<reg_instances, constructed>>
           ELSE IF CreateFails(name)
           THEN /\ reg_returned'.outcome = "None"
                /\ UNCHANGED <<reg_instances, constructed>>
           ELSE /\ reg_returned'.outcome = "instance"
                /\ constructed' = Append(constructed, reg_strategies[name])
                /\ reg_returned'.instance = Len(constructed')
                /\ reg_instances' =
                       [reg_instances EXCEPT ![name] = Len(constructed')]

C27_OneInstancePerName == [][CreateCaches /\ GetInstanceCaches]_vars

\* get_instance has returned the first object after a second one had been
\* constructed: the object came from the cache
C27_Witness ==
    /\ reg_returned.op = "get_instance"
    /\ reg_returned.outcome = "instance"
    /\ reg_returned.instance = 1
    /\ reg_instances[reg_returned.name] = 1
    /\ Len(constructed) = 2

(***************************************************************************)
(* C28: after any sequence of register calls, list_strategies has one      *)
(* entry per registered name with the description and category of that     *)
(* name's own latest register call, and get_strategies_by_category(c) is   *)
(* the names whose latest register call used c.  Step by step: a register  *)
(* call gives its own name the entry it was called with and leaves the     *)
(* entry of every other name as it was.                                    *)
(***************************************************************************)
Listed == list_strategies(reg_strategies, class_meta)

RegisterSetsOwnEntry ==
    reg_returned'.op = "register" =>
        \A name \in RegistryNames, class \in StrategyClasses, m \in Metas :
            Register(name, class, m) =>
                /\ ListEntry(name, m.description, m.category) \in Listed'
                /\ \A e \in Listed : e.name /= name => e \in Listed'
                /\ \A e \in Listed' : e.name /= name => e \in Listed
                /\ \A c \in Categories :
                       get_strategies_by_category(reg_strategies',
                                                  class_meta', c)
                           = { e.name : e \in { x \in Listed' :
                                                  x.category = c } }

C28_OwnMetadata == [][RegisterSetsOwnEntry]_vars

\* list_strategies has returned the same description for both names, which
\* are registered with one class
C28_Witness ==
    /\ reg_returned.op = "list_strategies"
    /\ reg_strategies["conservative_trend"] = "ConservativeTrendStrategy"
    /\ reg_strategies["moderate_momentum"] = "ConservativeTrendStrategy"
    /\ reg_returned.entries =
           { ListEntry(name, ModerateMeta.description, ModerateMeta.category) :
               name \in RegistryNames }

(***************************************************************************)
(* C29: run_parameter_sweep takes the combinations of the cartesian        *)
(* product one after the other and handles every one of them before it     *)
(* returns: a combination whose constructor or whose backtest raises is    *)
(* skipped, leaves the result map as it was, and the combinations after it *)
(* are still run.  The map holds one item per key, and its keys are the    *)
(* keys of the combinations whose backtest returned a result.              *)
(***************************************************************************)
FailedOutcomes == {"construct_raised", "backtest_raised"}

StoredKeys ==
    { param_key(sweep.parameter_ranges, sweep.combinations[i]) :
        i \in { j \in 1..Len(sweep.outcomes) : sweep.outcomes[j] = "stored" } }

SweepCoversProduct ==
    /\ sweep.pc # "idle" =>
           /\ sweep.combinations = product(sweep.parameter_ranges)
           /\ Len(sweep.outcomes) = sweep.k - 1
           /\ sweep.k <= Len(sweep.combinations) + 1
    /\ sweep.pc = "returned" =>
           Len(sweep.outcomes) = Len(sweep.combinations)
    /\ Keys(sweep.results) = StoredKeys
    /\ Cardinality(Keys(sweep.results)) = Len(sweep.results)

FailureIsSkipped ==
    (/\ Len(sweep'.outcomes) = Len(sweep.outcomes) + 1
     /\ sweep'.outcomes[Len(sweep'.outcomes)] \in FailedOutcomes) =>
        /\ sweep'.results = sweep.results
        /\ sweep'.k = sweep.k + 1
        /\ sweep'.pc = "next"

C29_SweepIsolatesFailures ==
    /\ []SweepCoversProduct
    /\ [][FailureIsSkipped]_vars

\* the sweep has returned a result for the second combination after the
\* constructor had raised on the first
C29_Witness ==
    /\ sweep.pc = "returned"
    /\ sweep.outcomes = <<"construct_raised", "stored">>
    /\ Len(sweep.results) = 1

\* the sweep has returned after the backtests of both combinations raised
C29_RaisedWitness ==
    /\ sweep.pc = "returned"
    /\ sweep.outcomes = <<"backtest_raised", "backtest_raised">>
    /\ sweep.results = <<>>

\* two combinations whose values print alike have shared one key
C29_SharedKeyWitness ==
    /\ sweep.pc = "returned"
    /\ sweep.outcomes = <<"stored", "stored">>
    /\ Len(sweep.results) = 1

\* a summary call returns
SummaryStep ==
    /\ summary'.op # "none"
    /\ GetPerformanceSummary \/ GetCurrentStatus

\* the ledger of the simulator is what it was before the call
SummaryReadsOnly ==
    UNCHANGED <<cash, current_balance, positions, trade_history,
                balance_history, peak_balance, max_drawdown>>

\* the call returns what the same call returned before it, no tick between
SummaryRepeats == summary'.repeated => summary'.value = summary.value

(***************************************************************************)
(* C30: get_performance_summary and get_current_status are read-only and   *)
(* idempotent: a call changes none of cash, positions, trade_history,      *)
(* balance_history, peak_balance and max_drawdown, and a second call with  *)
(* no tick in between returns the totals the first call returned.          *)
(***************************************************************************)
C30_SummaryIsReadOnly ==
    [][SummaryStep => SummaryReadsOnly /\ SummaryRepeats]_vars

\* get_performance_summary was called twice in a row after a winning trade
C30_Witness ==
    /\ summary.op = "get_performance_summary"
    /\ summary.repeated
    /\ ~summary.value.raised
    /\ summary.value.winning_trades > 0
    /\ Len(summary.value.daily_returns) = 1
    /\ summary.value.daily_returns[1].n # 0

\* get_current_status was called twice in a row with a position open
C30_StatusWitness ==
    /\ summary.op = "get_current_status"
    /\ summary.repeated
    /\ summary.value.positions_count > 0

\* _open_long_position reaches position_value / current_price with a price
\* of 0: the processing of the decision raises ZeroDivisionError
ProcessingRaises(decision) ==
    /\ decision.signal \in BuySignals
    /\ tick.price = 0
    /\ ~get_position(positions, tick.symbol, StrategyOrder[tick.strategy])
    /\ Len(positions) < max_positions

\* the ledger is what it was, and the loop is at the next strategy, or at
\* step 3 after the last one
StrategySkipped ==
    /\ UNCHANGED <<cash, current_balance, peak_balance, max_drawdown,
                   positions, trade_history, balance_history>>
    /\ IF tick.strategy < Len(StrategyOrder)
       THEN pc' = "strategies" /\ tick'.strategy = tick.strategy + 1
       ELSE pc' = "portfolio"

FaultIsSkipped ==
    pc = "strategies" =>
        /\ AnalyzeRaises => StrategySkipped
        /\ \A decision \in Decisions :
               (ProcessingRaises(decision) /\ RunStrategy(decision))
                   => StrategySkipped

\* steps 3 and 4 follow the loop, and step 3 appends one entry per tick
OneEntryPerTick ==
    /\ pc = "portfolio" => UpdatePortfolioValue \/ UNCHANGED vars
    /\ pc = "risk" => ApplyRiskManagement \/ UNCHANGED vars
    /\ Len(balance_history') =
           IF pc' \in {"idle", "risk"} THEN ticks' ELSE ticks' - 1

(***************************************************************************)
(* C31: a strategy whose analyze raises, or whose decision raises while it *)
(* is processed (a BUY at price 0), leaves the ledger as it was before the *)
(* strategy was processed; the loop goes on with the remaining strategies; *)
(* steps 3 and 4 run, and every tick appends exactly one entry to          *)
(* balance_history.                                                        *)
(***************************************************************************)
C31_FaultIsolation == [][FaultIsSkipped /\ OneEntryPerTick]_vars

\* a tick at price 0 is over with an open position still in the ledger and
\* one balance entry per tick: the BUY of the first tick held, every
\* strategy of the second tick was run, and steps 3 and 4 ran
C31_Witness ==
    /\ pc = "idle"
    /\ ticks = 2
    /\ tick.price = 0
    /\ Len(positions) > 0
    /\ Len(balance_history) = 2

\* update_position has returned the SELL of a crossed level
ExitReturned ==
    /\ returned.op = "update_position"
    /\ returned.outcome = "decision"

RealizedPnl == SumSeq([i \in 1..Len(SellRecords) |-> SellRecords[i].pnl])

\* between two calls of process_market_data the balance is the cash plus
\* the open positions at their entry prices, and the initial balance plus
\* the realised pnl
AccountingIdentity ==
    pc = "idle" =>
        /\ current_balance = cash + positions_value(positions)
        /\ current_balance = initial_balance + RealizedPnl

PeakAboveBalance == peak_balance >= current_balance

\* the balance changes in step 3 only, and only after a position was closed
\* at a price other than its entry price
BalanceChangesOnClose ==
    current_balance' # current_balance =>
        /\ pc = "portfolio"
        /\ \E i \in 1..Len(SellRecords) : SellRecords[i].pnl # 0
        /\ current_balance' = initial_balance + RealizedPnl

PeakAndDrawdownGrow ==
    /\ peak_balance' >= peak_balance
    /\ ~FracLess(max_drawdown'.n, max_drawdown'.d,
                 max_drawdown.n, max_drawdown.d)

(***************************************************************************)
(* C33: after every process_market_data call current_balance is cash plus  *)
(* the sum of quantity x entry_price over the open positions, and is       *)
(* initial_balance plus the sum of the pnl of all SELL records; the        *)
(* balance changes only when a position was closed; peak_balance is at     *)
(* least current_balance; peak_balance and max_drawdown never decrease.    *)
(***************************************************************************)
C33_AccountingIdentity ==
    /\ [](AccountingIdentity /\ PeakAboveBalance)
    /\ [][BalanceChangesOnClose /\ PeakAndDrawdownGrow]_vars

\* two ticks are over, one position was closed with a loss and another is
\* open
C33_Witness ==
    /\ pc = "idle"
    /\ ticks = 2
    /\ RealizedPnl < 0
    /\ Len(positions) > 0
    /\ current_balance < peak_balance

\* max_drawdown has exceeded the ceiling of 15%
Latched == DrawdownExceeded(max_drawdown)

\* with the latch set no position is open between two ticks, and all of
\* the balance is cash
LatchedIdle ==
    (Latched /\ pc = "idle") =>
        /\ positions = <<>>
        /\ cash = current_balance

\* step 4 with the latch set: every open position is closed at its own
\* entry price with pnl 0, and the cash is the balance
LatchedLiquidation ==
    (Latched /\ pc = "risk") =>
        /\ pc' = "idle"
        /\ positions' = <<>>
        /\ Len(NewRecords) = Len(positions)
        /\ \A i \in 1..Len(positions) :
               /\ NewRecords[i].action = "SELL"
               /\ NewRecords[i].id = positions[i].id
               /\ NewRecords[i].price = positions[i].entry_price
               /\ NewRecords[i].pnl = 0
               /\ NewRecords[i].reason = "Risk Management"
        /\ cash' = cash + positions_value(positions)
        /\ cash' = current_balance

\* step 3 of a tick that began with the latch set: the balance, which was
\* the cash before the tick, is what it was
LatchedTickKeepsBalance ==
    (Latched /\ pc = "portfolio") => current_balance' = current_balance

(***************************************************************************)
(* C34: the risk check tests max_drawdown, which never decreases; once it  *)
(* has exceeded 0.15 every process_market_data call ends with no open      *)
(* position: a position opened in step 2 is closed in step 4 of the same   *)
(* tick at its entry price with pnl 0, and the cash is what it was before  *)
(* the position was opened.                                                *)
(***************************************************************************)
C34_DrawdownLatch ==
    /\ []LatchedIdle
    /\ [][(Latched => Latched') /\ LatchedLiquidation
              /\ LatchedTickKeepsBalance]_vars

\* a tick that began with the latch set has bought and was liquidated
C34_Witness ==
    /\ ticks > MaxTicks
    /\ pc = "idle"
    /\ Latched
    /\ positions = <<>>
    /\ trade_history[Len(trade_history)].reason = "Risk Management"
    /\ trade_history[Len(trade_history)].price = tick.price
    /\ trade_history[Len(trade_history)].pnl = 0
    /\ trade_history[Len(trade_history) - 1].action = "BUY"
    /\ cash = current_balance

\* the condition of the STRONG_BUY branch of _combine_momentum_signals
StrongBuyCondition(market) ==
    /\ ~market.raises
    /\ analyze_macd_momentum(market.indicators).signal = "bullish_strong"
    /\ analyze_bollinger_bands(market.indicators).signal = "oversold"
    /\ check_volume_confirmation(market.indicators)
    /\ moderate_is_volatility_acceptable(market.indicators)
    /\ get_trend_direction(market.indicators) = "bullish"
    /\ check_news_sentiment(market.news)

\* the condition of the BUY branch, which is tested first
BuyCondition(market) ==
    /\ ~market.raises
    /\ analyze_macd_momentum(market.indicators).signal
           \in {"bullish", "bullish_strong"}
    /\ analyze_bollinger_bands(market.indicators).signal
           \in {"oversold", "below_middle"}
    /\ moderate_is_volatility_acceptable(market.indicators)
    /\ check_news_sentiment(market.news)

(***************************************************************************)
(* C35: ModerateMomentumStrategy.analyze never returns STRONG_BUY.  Every  *)
(* input that satisfies the condition of the STRONG_BUY branch satisfies   *)
(* the condition of the BUY branch, which is tested first, and is          *)
(* classified BUY.                                                         *)
(***************************************************************************)
C35_NeverStrongBuy ==
    /\ StrongBuyCondition(inputs) => BuyCondition(inputs)
    /\ Analyzed("moderate") =>
           /\ analyzed.decision.signal # "STRONG_BUY"
           /\ StrongBuyCondition(inputs) => analyzed.decision.signal = "BUY"

\* the moderate strategy was called on an input that satisfies the
\* condition of the STRONG_BUY branch, and has returned BUY
C35_Witness ==
    /\ Analyzed("moderate")
    /\ StrongBuyCondition(inputs)
    /\ analyzed.decision.signal = "BUY"

\* active_trades holds at most one trade of a symbol
OneTradePerSymbol ==
    \A i, j \in 1..Len(active_trades) :
        active_trades[i].symbol = active_trades[j].symbol => i = j

\* the symbol and the price of the data point the symbol loop is at
LoopSymbol == SymbolOrder[run.symbol]

LoopPrice ==
    LET series == run.historical_data[LoopSymbol]
    IN series[current_data(series, CurrentTimestamp)].price

\* the strategies whose decision for the data point is a valid BUY
Buyers(d) ==
    {k \in 1..Len(StrategyOrder) :
        /\ d[StrategyOrder[k]].signal \in BuySignals
        /\ validate_signal(d[StrategyOrder[k]], StrategyOrder[k])}

\* what the body of the symbol loop does to the trade of its symbol when
\* the strategies decide d: after is the ledger it leaves
OneTradeStep(d) ==
    LET symbol == LoopSymbol
        after == process_symbol(Ledger, run.historical_data,
                                CurrentTimestamp, symbol, d)
        held == HasTrade(active_trades, symbol)
        trade == TradeOf(active_trades, symbol)
        reason == BtExitReason(trade, LoopPrice, d)
        level == reason \in {"Stop Loss", "Take Profit"}
        sells == d[trade.strategy_name].signal \in {"SELL", "STRONG_SELL"}
        kept == held /\ ~level /\ ~sells
        closed == after.completed_trades[Len(after.completed_trades)]
    IN /\ kept => after = Ledger
       /\ (held /\ ~kept) =>
              /\ Len(after.completed_trades) = Len(completed_trades) + 1
              /\ closed.id = trade.id
              /\ ~level => /\ sells
                           /\ closed.exit_reason \notin {"Stop Loss",
                                                         "Take Profit"}
       /\ (~kept /\ Buyers(d) # {}) =>
              /\ after.opened = opened + 1
              /\ HasTrade(after.active_trades, symbol)
              /\ TradeOf(after.active_trades, symbol).id = after.opened
              /\ TradeOf(after.active_trades, symbol).strategy_name =
                     StrategyOrder[CHOOSE k \in Buyers(d) :
                                       \A other \in Buyers(d) : k <= other]
       /\ (~kept /\ Buyers(d) = {}) =>
              /\ after.opened = opened
              /\ ~HasTrade(after.active_trades, symbol)
       /\ \A i, k \in 1..Len(after.active_trades) :
              after.active_trades[i].symbol = after.active_trades[k].symbol
                  => i = k

\* in every state in which the body of the symbol loop is about to run
OneTradeLoop ==
    ( /\ run.pc = "loop"
      /\ run.symbol <= Len(SymbolOrder)
      /\ HasData
      /\ ~ProcessRaises(run.historical_data, CurrentTimestamp, LoopSymbol) ) =>
        \A d \in [Strategies -> Decisions] : OneTradeStep(d)

(***************************************************************************)
(* C36: the backtester holds at most one open trade per symbol across all  *)
(* strategies.  While a trade on a symbol is open no strategy opens the    *)
(* symbol; of several strategies that would buy at one timestamp the one   *)
(* added first opens the trade; an open trade whose levels are not hit is  *)
(* closed only by a SELL or STRONG_SELL of the strategy that opened it.    *)
(***************************************************************************)
C36_OneTradePerSymbol == OneTradePerSymbol /\ OneTradeLoop

\* the trade on BTC is the moderate strategy's, opened after the trade of
\* the conservative strategy on BTC had been closed
C36_Witness ==
    /\ HasTrade(active_trades, "BTC")
    /\ TradeOf(active_trades, "BTC").strategy_name = "moderate"
    /\ \E i \in 1..Len(completed_trades) :
           /\ completed_trades[i].symbol = "BTC"
           /\ completed_trades[i].strategy_name = "conservative"

\* the decision of an engine, whose position size is in percent, in the
\* units of BaseStrategy.validate_signal
InSizeScale(decision) ==
    [decision EXCEPT !.position_size = @ * (SizeScale \div 100)]

\* the trades the strategy has open in the backtester
OpenTradesOf(strategy_name) ==
    Len(SelectSeq(active_trades, LAMBDA t : t.strategy_name = strategy_name))

\* the positions the strategy has open in the simulator
OpenPositionsOf(strategy_name) ==
    Len(SelectSeq(positions, LAMBDA p : p.strategy_name = strategy_name))

\* the ledger and the metrics of the strategy are those of its constructor
StrategyUntouched ==
    /\ len_positions(strategy_positions) = 0
    /\ metrics = NewMetrics

\* validate_signal accepts a BUY by its confidence and size alone
CapNeverRejects ==
    \A decision \in Decisions :
        decision.signal \in BuySignals =>
            base_validate_signal(config, strategy_positions,
                                 InSizeScale(decision))
                = validate_signal(decision, "conservative")

(***************************************************************************)
(* C37: no step of PortfolioSimulator or SimpleBacktester changes the      *)
(* position ledger or the metrics of a strategy (add_position,             *)
(* close_position and update_metrics are never called), so the cap on open *)
(* positions in validate_signal never rejects a BUY, however many trades   *)
(* of the strategy the engine has open.                                    *)
(***************************************************************************)
C37_EnginesLeaveStrategies ==
    /\ [](StrategyUntouched /\ CapNeverRejects)
    /\ [][UNCHANGED <<config, strategy_positions, metrics>>]_vars

\* the backtester holds as many trades of the strategy as its config
\* allows positions, and the strategy's own ledger is empty
C37_Witness ==
    /\ run.pc = "loop"
    /\ OpenTradesOf("conservative") >= config.max_positions
    /\ len_positions(strategy_positions) = 0
    /\ \E decision \in Decisions :
           /\ decision.signal = "BUY"
           /\ base_validate_signal(config, strategy_positions,
                                   InSizeScale(decision))

\* the simulator holds two positions of the strategy, as many as its
\* config allows, and the strategy's own ledger is empty
C37_SimulatorWitness ==
    /\ OpenPositionsOf("conservative") >= config.max_positions
    /\ config.max_positions = 2
    /\ len_positions(strategy_positions) = 0

\* the object has the empty ledger and the zeroed metrics of a constructor
Fresh(object) == object = NewObject

\* a call of create(name) that returned an object: the object is new, it
\* is the cached one and it differs from the one cached before
CreateConstructs ==
    \A n \in RegistryNames :
        (/\ reg_returned' /= reg_returned
         /\ reg_returned'.op = "create"
         /\ reg_returned'.name = n
         /\ reg_returned'.outcome = "instance")
            => /\ Len(constructed') = Len(constructed) + 1
               /\ reg_returned'.instance = Len(constructed')
               /\ reg_instances'[n] = reg_returned'.instance
               /\ reg_instances'[n] /= reg_instances[n]
               /\ Fresh(objects'[reg_instances'[n]])

ValidatedAs(verdict) ==
    {e.name : e \in {x \in reg_returned'.entries : x.description = verdict}}

\* a call of validate_registry: every registered name is in exactly one of
\* the two lists, and get_instance of a valid name gives a new object that
\* differs from the one cached before
ValidateConstructs ==
    (/\ reg_returned'.op = "validate_registry"
     /\ <<reg_returned, constructed>>' /= <<reg_returned, constructed>>)
        => /\ ValidatedAs("valid") \cup ValidatedAs("Cannot create instance")
                  = Registered
           /\ ValidatedAs("valid") \cap ValidatedAs("Cannot create instance")
                  = {}
           /\ Len(constructed')
                  = Len(constructed) + Cardinality(ValidatedAs("valid"))
           /\ \A n \in ValidatedAs("valid") :
                  /\ reg_instances'[n] > Len(constructed)
                  /\ reg_instances'[n] /= reg_instances[n]
                  /\ Fresh(objects'[reg_instances'[n]])
                  /\ \A other \in ValidatedAs("valid") \ {n} :
                         reg_instances'[other] /= reg_instances'[n]

(***************************************************************************)
(* C38: every successful create(n) constructs a new object and caches it   *)
(* in place of the earlier one, and validate_registry calls create for     *)
(* every registered name: afterwards get_instance(n) gives an object with  *)
(* an empty position ledger and zeroed metrics that differs from the one   *)
(* returned before, and every registered name is in exactly one of         *)
(* 'valid' and 'invalid'.                                                  *)
(***************************************************************************)
C38_CreateReplacesInstance ==
    [][CreateConstructs /\ ValidateConstructs]_vars

\* validate_registry has run while a cached object held a position, put
\* one name into each list, and the object now cached for the valid name
\* is a new one
C38_Witness ==
    /\ reg_returned.op = "validate_registry"
    /\ \E n, k \in RegistryNames :
           /\ ListEntry(n, "valid", "") \in reg_returned.entries
           /\ ListEntry(k, "Cannot create instance", "")
                  \in reg_returned.entries
           /\ reg_instances[n] = 2
           /\ Fresh(objects[2])
           /\ ~Fresh(objects[1])

\* a second create has replaced a cached object that held a position
C38_CreateWitness ==
    /\ reg_returned.op = "create"
    /\ reg_returned.outcome = "instance"
    /\ reg_returned.instance = 2
    /\ constructed[1] = constructed[2]
    /\ ~Fresh(objects[1])
    /\ Fresh(objects[2])

\* a step in which run_backtest begins
BacktestBegins ==
    /\ run.pc \in {"new", "returned", "raised"}
    /\ run'.pc \in {"loop", "closing"}

\* the backtester after the reset is the backtester a constructor leaves,
\* and the results an earlier run returned are as they were
BeginResets ==
    BacktestBegins
        => /\ current_capital' = initial_capital
           /\ active_trades' = <<>>
           /\ completed_trades' = <<>>
           /\ equity_history' = <<>>
           /\ results' = results

\* no step inside a run touches the results the run before returned
EarlierResultsKept ==
    (run.pc \in {"loop", "closing"} /\ run'.pc \in {"loop", "closing", "raised"})
        => results' = results

\* the second run, on the arguments of the first, has ended as the first
SecondRunEnded ==
    /\ rerun.mode = "replay"
    /\ run.pc \in {"returned", "raised"}

SameOutcome ==
    SecondRunEnded
        => /\ run.pc = rerun.earlier.pc
           /\ rerun.asked = Len(rerun.answers)
           /\ run.pc = "returned" => results = rerun.earlier.results

(***************************************************************************)
(* C39: run_backtest starts from a reset state (capital, active trades,    *)
(* completed trades, equity history): a second run of the same backtester  *)
(* with the same strategies, data and date range returns results equal to  *)
(* those of the first, whatever an earlier run left behind, and no later   *)
(* run alters the results an earlier run returned.                         *)
(***************************************************************************)
C39_RunsAreIndependent ==
    /\ []SameOutcome
    /\ [][BeginResets /\ EarlierResultsKept]_vars

\* the second run has returned the results of the first, which hold a
\* completed trade with a profit or a loss
C39_Witness ==
    /\ rerun.mode = "replay"
    /\ run.pc = "returned"
    /\ results = rerun.earlier.results
    /\ \E s \in DOMAIN results :
           /\ results[s].total_trades > 0
           /\ results[s].total_return /= 0

\* a run on other data has returned results after a first run that raised
C39_AfterRaiseWitness ==
    /\ rerun.mode = "other"
    /\ rerun.earlier.pc = "raised"
    /\ run.pc = "returned"
    /\ DOMAIN results /= {}
====
